---- MODULE Spec2Model ----
(***************************************************************************)
(* A model of the math-parser library: the token vocabulary and operation  *)
(* tables (token.h), the expression class with its shunting-yard           *)
(* converter, stack evaluator and subexpression locator (expression.h),    *)
(* and the symbolic differentiation engine (derivative.h).                 *)
(*                                                                         *)
(* Numbers: std::complex<T> values are modelled by exact rationals (the    *)
(* imaginary part is always 0 in the modelled inputs) plus two symbolic    *)
(* values, pi/2 and "other" (irrational, non-finite or NaN). Rounding of   *)
(* the floating-point evaluators is not modelled.                          *)
(***************************************************************************)
EXTENDS Integers, Sequences, FiniteSets, TLC

\* ------------------------------------------------------------------ bounds
\* Constant tokens carry the values 0 .. MaxConst.
MaxConst == 3
\* Longest postfix sequence over the full alphabet drawn as an input.
MaxPostfixLen == 3
\* Longest postfix sequence over the small alphabet drawn as an input.
MaxShapeLen == 5
\* Longest infix token sequence enumerated exhaustively.
MaxInfixLen == 3
\* Evaluation points are the integers 0 .. MaxPoint and pi/2.
MaxPoint == 3
\* How many results in a row are taken as the next expression to work on.
MaxChain == 1
\* Longest result that is taken as the next expression to work on.
MaxTakenLen == 60
\* Longest postfix-tagged sequence of arbitrary tokens drawn as an input.
MaxRawLen == 3
\* Longest input string handed to the tokenizer.
MaxTextLen == 4
\* Rationals are kept exact while numerator and denominator stay within
\* MaxMagnitude; beyond it a value counts as "other".
MaxMagnitude == 30000

\* ------------------------------------------------------------------ values
Abs(x) == IF x < 0 THEN -x ELSE x

RECURSIVE Gcd(_, _)
Gcd(a, b) == IF b = 0 THEN a ELSE Gcd(b, a % b)

Num(n) == [k |-> "rat", n |-> n, d |-> 1]
\* The sample point pi/2, kept symbolic.
HalfPi == [k |-> "halfpi", n |-> 0, d |-> 1]
\* Any value outside the exact domain (irrational, infinite, NaN, too large).
OtherVal == [k |-> "other", n |-> 0, d |-> 1]

\* A finite rational n/d in lowest terms, d > 0.
Rat(n, d) ==
    LET s == IF d < 0 THEN -1 ELSE 1
        g == Gcd(Abs(n), Abs(d))
        nn == (s * n) \div g
        dd == (s * d) \div g
    IN  IF Abs(nn) > MaxMagnitude \/ dd > MaxMagnitude THEN OtherVal
        ELSE [k |-> "rat", n |-> nn, d |-> dd]

IsRat(v) == v.k = "rat"
IsZero(v) == v.k = "rat" /\ v.n = 0

VAdd(a, b) == IF IsRat(a) /\ IsRat(b) THEN Rat(a.n * b.d + b.n * a.d, a.d * b.d) ELSE OtherVal
VSub(a, b) == IF IsRat(a) /\ IsRat(b) THEN Rat(a.n * b.d - b.n * a.d, a.d * b.d) ELSE OtherVal
VMul(a, b) == IF IsRat(a) /\ IsRat(b) THEN Rat(a.n * b.n, a.d * b.d) ELSE OtherVal
VDiv(a, b) ==
    IF IsRat(a) /\ IsRat(b) /\ b.n # 0 THEN Rat(a.n * b.d, a.d * b.n) ELSE OtherVal
VNeg(a) == IF IsRat(a) THEN Rat(-a.n, a.d) ELSE OtherVal

\* a to the power e >= 0, by squaring: the evaluation stays shallow for large
\* exponents, and the result leaves the exact domain exactly when a^e does.
RECURSIVE IntPow(_, _)
IntPow(a, e) ==
    IF e = 0 THEN Num(1)
    ELSE LET half == IntPow(a, e \div 2)
             square == VMul(half, half)
         IN  IF e % 2 = 0 THEN square ELSE VMul(a, square)

\* std::pow on complex operands, on the part of its domain that stays rational:
\* an integer exponent; 0 raised to a non-positive power is not finite/NaN.
VPow(a, b) ==
    IF ~(IsRat(a) /\ IsRat(b) /\ b.d = 1) THEN OtherVal
    ELSE IF a.n = 0 THEN (IF b.n > 0 THEN Num(0) ELSE OtherVal)
    ELSE IF b.n >= 0 THEN IntPow(a, b.n)
    ELSE VDiv(Num(1), IntPow(a, -b.n))

VSin(a) == IF IsZero(a) THEN Num(0) ELSE IF a = HalfPi THEN Num(1) ELSE OtherVal
VCos(a) == IF IsZero(a) THEN Num(1) ELSE IF a = HalfPi THEN Num(0) ELSE OtherVal

\* ------------------------------------------------------------------ tokens
\* enum token_type and enum operation.
token_type == {"VAR", "CONST", "BIN_OP", "FUNC", "OTHER_TYPE"}

operation ==
    {"L_BRACKET", "R_BRACKET", "ADD", "SUB", "NEG", "MUL", "DIV", "POW", "RE", "IM",
     "ABS", "ARG", "CONJ", "EXP", "LOG", "COS", "SIN", "TAN", "SEC", "CSC", "COT",
     "ACOS", "ASIN", "ATAN", "COSH", "SINH", "TANH", "ACOSH", "ASINH", "ATANH",
     "DERIV", "NO_OP"}

\* struct token { type; op; val }.
token(type, op, val) == [type |-> type, op |-> op, val |-> val]

Variable == token("VAR", "NO_OP", Num(0))
Constant(c) == token("CONST", "NO_OP", Num(c))
ConstantV(v) == token("CONST", "NO_OP", v)
BinOp(op) == token("BIN_OP", op, Num(0))
Func(op) == token("FUNC", op, Num(0))
Bracket(op) == token("OTHER_TYPE", op, Num(0))

\* ------------------------------------------------------------------ tables
BinaryOps == {"ADD", "SUB", "MUL", "DIV", "POW"}

UnaryFuncs ==
    {"NEG", "RE", "IM", "ABS", "ARG", "CONJ", "EXP", "LOG", "COS", "SIN", "TAN",
     "SEC", "CSC", "COT", "ACOS", "ASIN", "ATAN", "COSH", "SINH", "TANH", "ACOSH",
     "ASINH", "ATANH", "DERIV"}

\* Fault seeding: the evaluators applied with their operands exchanged.
get_bin_op_exchanged(op, z_1, z_2) ==
    CASE op = "ADD" -> VAdd(z_2, z_1)
      [] op = "SUB" -> VSub(z_2, z_1)
      [] op = "MUL" -> VMul(z_2, z_1)
      [] op = "DIV" -> VDiv(z_2, z_1)
      [] op = "POW" -> VPow(z_2, z_1)
      [] OTHER -> OtherVal

\* get_bin_op: the evaluator of a binary operator, applied to (z_1, z_2).
get_bin_op(op, z_1, z_2) ==
    CASE op = "ADD" -> VAdd(z_1, z_2)
      [] op = "SUB" -> VSub(z_1, z_2)
      [] op = "MUL" -> VMul(z_1, z_2)
      [] op = "DIV" -> VDiv(z_1, z_2)
      [] op = "POW" -> VPow(z_1, z_2)
      [] OTHER -> OtherVal

\* get_func: the evaluator of a unary function, applied to z.
get_func(op, z) ==
    CASE op = "NEG" -> VNeg(z)
      [] op = "RE" -> IF IsRat(z) THEN z ELSE OtherVal
      [] op = "IM" -> IF IsRat(z) THEN Num(0) ELSE OtherVal
      [] op = "ABS" -> IF IsRat(z) THEN Rat(Abs(z.n), z.d) ELSE OtherVal
      [] op = "CONJ" -> IF IsRat(z) THEN z ELSE OtherVal
      [] op = "EXP" -> IF IsZero(z) THEN Num(1) ELSE OtherVal
      [] op = "LOG" -> IF z = Num(1) THEN Num(0) ELSE OtherVal
      [] op = "COS" -> VCos(z)
      [] op = "SIN" -> VSin(z)
      [] op = "SEC" -> VDiv(Num(1), VCos(z))
      [] op = "TAN" -> IF IsZero(z) THEN Num(0) ELSE OtherVal
      [] op = "DERIV" -> Num(0)
      [] OTHER -> OtherVal

\* Fault seeding: the precedence table with NEG ranked with the other unary
\* functions.
get_precedence_unary_tightest(op) ==
    CASE op \in {"L_BRACKET", "R_BRACKET"} -> 4
      [] op \in {"ADD", "SUB"} -> 0
      [] op \in {"MUL", "DIV"} -> 1
      [] op = "POW" -> 2
      [] op \in UnaryFuncs -> 3

\* get_precedence: the precedence table.
get_precedence(op) ==
    CASE op \in {"L_BRACKET", "R_BRACKET"} -> 4
      [] op \in {"ADD", "SUB"} -> 0
      [] op \in {"NEG", "MUL", "DIV"} -> 1
      [] op = "POW" -> 2
      [] op \in UnaryFuncs \ {"NEG"} -> 3

\* get_token_type: the token type of an operator.
get_token_type(op) ==
    CASE op \in BinaryOps -> "BIN_OP"
      [] op \in UnaryFuncs -> "FUNC"
      [] OTHER -> "OTHER_TYPE"

\* Fault seeding: the table with the sign of the cosine entry lost.
get_deriv_table_unsigned(op) ==
    CASE op = "SIN" -> << Func("COS") >>
      [] op = "COS" -> << Func("SIN") >>
      [] OTHER -> << >>

\* get_deriv: the derivative fragment of a unary function; <<>> stands for the
\* missing table entry (the lookup then throws).
get_deriv_table(op) ==
    CASE op = "SIN" -> << Func("COS") >>
      [] op = "COS" -> << Func("SIN"), Func("NEG") >>
      [] OTHER -> << >>

HasDeriv(op) == get_deriv_table(op) # << >>

\* ------------------------------------------------------------------ outcomes
\* The result of a call: a status, the expression returned (its token list and
\* its postfix tag) and the value returned. status = "ok" is a normal return, an
\* exception name is a throw, "crash" is a call that never returns normally
\* (an abort or fault once undefined behaviour was executed).
Outcome(status, m_expr, m_postfix, val) ==
    [status |-> status, m_expr |-> m_expr, m_postfix |-> m_postfix, val |-> val,
     pos |-> 0]

OkExpr(m_expr) == Outcome("ok", m_expr, TRUE, Num(0))
OkVal(val) == Outcome("ok", << >>, TRUE, val)
OkPos(pos) == [Outcome("ok", << >>, TRUE, Num(0)) EXCEPT !.pos = pos]
Throw(what) == Outcome(what, << >>, TRUE, Num(0))
Crash == Outcome("crash", << >>, TRUE, Num(0))
NoCall == Outcome("none", << >>, TRUE, Num(0))

\* The standard library the program is built against decides what executing
\* undefined behaviour leads to. "checked": the containers verify their
\* preconditions and abort. "cached" and "walked": no checks, std::list keeps
\* its size in a counter ("cached") or counts its nodes on demand ("walked").
Builds == {"checked", "cached", "walked"}

\* The outcome of undefined behaviour that no build gives a meaning to.
Undefined(lib) ==
    IF lib = "checked" THEN Crash ELSE Outcome("garbage", << >>, TRUE, OtherVal)

\* ------------------------------------------------------------------ tokenizer
\* A string is a sequence of one-character strings.
Digits == {"0", "1", "2", "3", "4", "5", "6", "7", "8", "9"}

DigitValue(c) ==
    CASE c = "0" -> 0 [] c = "1" -> 1 [] c = "2" -> 2 [] c = "3" -> 3 [] c = "4" -> 4
      [] c = "5" -> 5 [] c = "6" -> 6 [] c = "7" -> 7 [] c = "8" -> 8 [] c = "9" -> 9

\* get_operation: the name-to-operator table.
OperationTable ==
    { << << "{" >>, "L_BRACKET" >>, << << "}" >>, "R_BRACKET" >>,
      << << "(" >>, "L_BRACKET" >>, << << ")" >>, "R_BRACKET" >>,
      << << "+" >>, "ADD" >>, << << "-" >>, "SUB" >>, << << "*" >>, "MUL" >>,
      << << "/" >>, "DIV" >>, << << "^" >>, "POW" >>,
      << << "r", "e" >>, "RE" >>, << << "i", "m" >>, "IM" >>,
      << << "a", "b", "s" >>, "ABS" >>, << << "a", "r", "g" >>, "ARG" >>,
      << << "c", "o", "n", "j" >>, "CONJ" >>, << << "e", "x", "p" >>, "EXP" >>,
      << << "l", "o", "g" >>, "LOG" >>, << << "c", "o", "s" >>, "COS" >>,
      << << "s", "i", "n" >>, "SIN" >>, << << "t", "a", "n" >>, "TAN" >>,
      << << "s", "e", "c" >>, "TAN" >>, << << "c", "s", "c" >>, "TAN" >>,
      << << "c", "o", "t" >>, "TAN" >>, << << "a", "c", "o", "s" >>, "TAN" >>,
      << << "a", "s", "i", "n" >>, "TAN" >>, << << "a", "t", "a", "n" >>, "TAN" >>,
      << << "c", "o", "s", "h" >>, "TAN" >>, << << "s", "i", "n", "h" >>, "TAN" >>,
      << << "t", "a", "n", "h" >>, "TAN" >>,
      << << "a", "c", "o", "s", "h" >>, "TAN" >>,
      << << "a", "s", "i", "n", "h" >>, "TAN" >>,
      << << "a", "t", "a", "n", "h" >>, "TAN" >>,
      << << "d", "e", "r", "i", "v" >>, "DERIV" >> }

\* table.find(op) != table.end()
HasOperation(op) == \E entry \in OperationTable : entry[1] = op

\* Fault seeding: a lookup that resolves every unknown name to NO_OP instead
\* of throwing.
get_operation_lenient(op) ==
    IF HasOperation(op)
    THEN (CHOOSE entry \in OperationTable : entry[1] = op)[2]
    ELSE "NO_OP"

\* get_operation: the operator of a name; "" stands for the throw of
\* "Operation not found.".
get_operation(op) ==
    IF HasOperation(op)
    THEN (CHOOSE entry \in OperationTable : entry[1] = op)[2]
    ELSE ""

\* The characters that end an escaped function name.
NameEnders == {"\\", "-", "+", "*", "/", "^", "{", "(", "["}

\* get_op_end_index(input, n): the index of the last character of the name
\* that starts after the escape at n; 0 stands for the throw of "Operation end
\* index not found.". Indices are 1-based.
RECURSIVE get_op_end_index_from(_, _)
get_op_end_index_from(input, i) ==
    IF i > Len(input) THEN 0
    ELSE IF input[i] \in NameEnders THEN i - 1
    ELSE get_op_end_index_from(input, i + 1)

get_op_end_index(input, n) == get_op_end_index_from(input, n + 1)

\* The end of the run of digits and periods that starts at j (one past its
\* last character), or 0 when the run holds a second period.
RECURSIVE number_end(_, _, _)
number_end(cleaned, j, period_found) ==
    IF j > Len(cleaned) \/ cleaned[j] \notin Digits \cup {"."} THEN j
    ELSE IF cleaned[j] = "." /\ period_found THEN 0
    ELSE number_end(cleaned, j + 1, period_found \/ cleaned[j] = ".")

\* The integer written by a run of digits, and ten to the power k.
RECURSIVE DigitsValue(_)
DigitsValue(run) ==
    IF run = << >> THEN 0
    ELSE 10 * DigitsValue(SubSeq(run, 1, Len(run) - 1)) + DigitValue(run[Len(run)])

RECURSIVE Pow10(_)
Pow10(k) == IF k = 0 THEN 1 ELSE 10 * Pow10(k - 1)

\* std::stod on a run of digits with at most one period: [k |-> "none"] stands
\* for the throw of std::invalid_argument when the run holds no digit.
stod(run) ==
    LET digits == SelectSeq(run, LAMBDA c : c \in Digits)
        dot == IF \E p \in 1..Len(run) : run[p] = "."
               THEN CHOOSE p \in 1..Len(run) : run[p] = "."
               ELSE Len(run) + 1
    IN  IF digits = << >> THEN [k |-> "none", n |-> 0, d |-> 1]
        ELSE Rat(DigitsValue(digits), Pow10(Len(run) - dot + (IF dot > Len(run) THEN 1 ELSE 0)))

\* The longest prefix of text that std::stod reads as a plain decimal number
\* (digits with at most one period; signs and exponents are not modelled).
RECURSIVE decimal_prefix(_, _, _)
decimal_prefix(text, j, period_found) ==
    IF j > Len(text) \/ text[j] \notin Digits \cup {"."} THEN SubSeq(text, 1, j - 1)
    ELSE IF text[j] = "." /\ period_found THEN SubSeq(text, 1, j - 1)
    ELSE decimal_prefix(text, j + 1, period_found \/ text[j] = ".")

\* The first index >= j at which cleaned holds c, or Len + 1.
RECURSIVE find_char(_, _, _)
find_char(cleaned, j, c) ==
    IF j > Len(cleaned) \/ cleaned[j] = c THEN j ELSE find_char(cleaned, j + 1, c)

\* A complex value re + im i in the value domain of the model.
Complex(re, im) == IF IsZero(im) THEN re ELSE OtherVal

\* expr(const std::string&): the scan loop from index i on, m_expr the tokens
\* pushed so far.
RECURSIVE tokenize(_, _, _)
tokenize(cleaned, i, m_expr) ==
    IF i > Len(cleaned) THEN Outcome("ok", m_expr, FALSE, Num(0))
    ELSE
      LET c == cleaned[i] IN
      IF c = "\\"
      THEN LET j == get_op_end_index(cleaned, i)
               op == get_operation(SubSeq(cleaned, i + 1, j))
           IN  IF j = 0 THEN Throw("LexError")
               ELSE IF op = "" THEN Throw("OperationNotFound")
               ELSE tokenize(cleaned, j + 1,
                             Append(m_expr, token(get_token_type(op), op, Num(0))))
      ELSE IF i = 1 /\ c = "-"
      THEN tokenize(cleaned, i + 1, Append(m_expr, Func("NEG")))
      ELSE IF i > 1 /\ c = "-" /\ cleaned[i - 1] \in {"{", "("}
      THEN tokenize(cleaned, i + 1, Append(m_expr, Func("NEG")))
      ELSE IF c \in Digits \cup {"."}
      THEN LET j == number_end(cleaned, i, FALSE)
               num == stod(SubSeq(cleaned, i, j - 1))
           IN  IF j = 0 THEN Throw("LexError")
               ELSE IF num.k = "none" THEN Throw("stod")
               ELSE IF j <= Len(cleaned) /\ cleaned[j] = "i"
               THEN tokenize(cleaned, j + 1, Append(m_expr, ConstantV(Complex(Num(0), num))))
               ELSE tokenize(cleaned, j, Append(m_expr, ConstantV(num)))
      ELSE IF c = "["
      THEN LET j == find_char(cleaned, i + 1, ",")
               re == stod(decimal_prefix(SubSeq(cleaned, i + 1, j - 1), 1, FALSE))
               k == find_char(cleaned, j + 1, "]")
               im == stod(decimal_prefix(SubSeq(cleaned, j + 1, k - 1), 1, FALSE))
           IN  IF re.k = "none" THEN Throw("stod")
               ELSE IF j > Len(cleaned) THEN Throw("out_of_range")
               ELSE IF im.k = "none" THEN Throw("stod")
               ELSE tokenize(cleaned, k + 1, Append(m_expr, ConstantV(Complex(re, im))))
      ELSE IF c = "i"
      THEN tokenize(cleaned, i + 1, Append(m_expr, ConstantV(OtherVal)))
      ELSE IF c = "e"
      THEN tokenize(cleaned, i + 1, Append(m_expr, ConstantV(OtherVal)))
      ELSE IF i < Len(cleaned) /\ SubSeq(cleaned, i, i + 1) = << "p", "i" >>
      THEN tokenize(cleaned, i + 2, Append(m_expr, ConstantV(OtherVal)))
      ELSE IF c = "z"
      THEN tokenize(cleaned, i + 1, Append(m_expr, Variable))
      ELSE LET op == get_operation(<< c >>) IN
           IF op = "" THEN Throw("OperationNotFound")
           ELSE tokenize(cleaned, i + 1,
                         Append(m_expr, token(get_token_type(op), op, Num(0))))

\* expr(const std::string& infix): spaces are removed, then the string is
\* scanned; the expression built is tagged infix.
expr_from_string(infix) ==
    tokenize(SelectSeq(infix, LAMBDA c : c # " "), 1, << >>)

\* ------------------------------------------------------------------ evaluate
\* expr::evaluate: one pass of the stack machine from token `it` on. Reading
\* the top of an empty std::stack is undefined: a checked build aborts, the
\* others return the indeterminate value `junk`.
RECURSIVE evaluate_from(_, _, _, _, _, _)
evaluate_from(m_expr, it, eval_stack, z, lib, junk) ==
    LET n == Len(eval_stack)
        undefined == IF lib = "checked" THEN Crash ELSE Outcome("garbage", << >>, TRUE, junk)
    IN
    IF it > Len(m_expr)
    THEN IF n = 0 THEN undefined ELSE OkVal(eval_stack[n])
    ELSE
      LET t == m_expr[it] IN
      CASE t.type = "CONST" -> evaluate_from(m_expr, it + 1, Append(eval_stack, t.val), z, lib, junk)
        [] t.type = "VAR" -> evaluate_from(m_expr, it + 1, Append(eval_stack, z), z, lib, junk)
        [] t.type = "FUNC" ->
             IF n = 0 THEN undefined
             ELSE IF t.op \notin UnaryFuncs THEN Throw("invalid_argument")
             ELSE LET temp1 == eval_stack[n]
                  IN  evaluate_from(m_expr, it + 1,
                          Append(SubSeq(eval_stack, 1, n - 1), get_func(t.op, temp1)),
                          z, lib, junk)
        [] t.type = "BIN_OP" ->
             IF n < 2 THEN undefined
             ELSE IF t.op \notin BinaryOps THEN Throw("invalid_argument")
             ELSE LET temp1 == eval_stack[n]
                      temp2 == eval_stack[n - 1]
                  IN  evaluate_from(m_expr, it + 1,
                          Append(SubSeq(eval_stack, 1, n - 2), get_bin_op(t.op, temp2, temp1)),
                          z, lib, junk)
        [] OTHER -> evaluate_from(m_expr, it + 1, eval_stack, z, lib, junk)

\* Fault seeding: the scan started at the second token.
evaluate_past_first(m_expr, z, lib, junk) == evaluate_from(m_expr, 2, << >>, z, lib, junk)

evaluate(m_expr, z, lib, junk) == evaluate_from(m_expr, 1, << >>, z, lib, junk)

\* Fault seeding: the backward walk with a binary operator counted as needing
\* one operand.
RECURSIVE subexpr_walk_one_operand(_, _, _)
subexpr_walk_one_operand(m_expr, start, k) ==
    IF k = 0 THEN start
    ELSE IF start - 1 < 1 THEN 0
    ELSE LET s == start - 1
             t == m_expr[s]
             k1 == IF t.type \in {"FUNC", "BIN_OP"} THEN k + 1 ELSE k
         IN  subexpr_walk_one_operand(m_expr, s, k1 - 1)

\* ------------------------------------------------------------------ locator
\* expr::subexpr_begin: the backward arity walk. Positions are 1 .. Len, Len+1
\* is end(); position 0 stands for stepping before the first token of the list,
\* which is undefined.
RECURSIVE subexpr_walk(_, _, _)
subexpr_walk(m_expr, start, k) ==
    IF k = 0 THEN start
    ELSE IF start - 1 < 1 THEN 0
    ELSE LET s == start - 1
             t == m_expr[s]
             k1 == IF t.type = "FUNC" THEN k + 1
                   ELSE IF t.type = "BIN_OP" THEN k + 2
                   ELSE k
         IN  subexpr_walk(m_expr, s, k1 - 1)

subexpr_begin(m_expr, end) == subexpr_walk(m_expr, end, 1)

\* ------------------------------------------------------------------ derivative
\* The tokens of the iterator range [b, e).
Slice(m_expr, b, e) == SubSeq(m_expr, b, e - 1)

\* Fault seeding: the lookup returning the (empty) fragment of a missing entry
\* instead of throwing.
get_deriv_lenient(op) == OkExpr(get_deriv_table(op))

\* get_deriv: the table lookup, which throws when the entry is missing.
get_deriv(op) ==
    IF HasDeriv(op) THEN OkExpr(get_deriv_table(op)) ELSE Throw("UnknownDerivative")

\* Fault seeding: a lone Variable differentiated like a Constant.
differentiate_VAR_as_constant == << token("CONST", "NO_OP", Num(0)) >>

\* The derivative of a lone Variable and of a lone Constant.
differentiate_VAR == << Constant(1) >>
differentiate_CONST == << Constant(0) >>

\* The test "this term is the single token Constant 0", on a list whose
\* size() reports `size` and whose first node is nodes[1].
IsStructuralZero(nodes, size) ==
    size = 1 /\ nodes[1].type = "CONST" /\ IsZero(nodes[1].val)

RECURSIVE differentiate(_, _, _, _)
RECURSIVE differentiate_func(_, _, _, _)
RECURSIVE differentiate_bin_op(_, _, _, _)
RECURSIVE differentiate_bin_op_add_sub(_, _, _, _)
RECURSIVE differentiate_bin_op_mul(_, _, _, _)
RECURSIVE differentiate_bin_op_div(_, _, _, _)
RECURSIVE differentiate_bin_op_pow(_, _, _, _)

\* differentiate(begin, end): dispatch on the last token of [begin, end).
differentiate(m_expr, begin, end, lib) ==
    IF end - 1 < 1 THEN Undefined(lib)
    ELSE
      LET t == m_expr[end - 1] IN
      CASE t.type = "VAR" -> OkExpr(differentiate_VAR)
        [] t.type = "CONST" -> OkExpr(differentiate_CONST)
        [] t.type = "FUNC" -> differentiate_func(m_expr, begin, end, lib)
        [] t.type = "BIN_OP" -> differentiate_bin_op(m_expr, begin, end, lib)
        [] OTHER -> Throw("InvalidDifferentiation")

\* Fault seeding: the chain rule without the re-emitted argument [g].
differentiate_func_without_argument(m_expr, begin, end, lib) ==
    LET f == end - 1
        g_end == f - 1
    IN
    IF m_expr[f].type # "FUNC" THEN Throw("InvalidDifferentiation")
    ELSE IF g_end < 1 \/ begin > f THEN Undefined(lib)
    ELSE IF begin = g_end
    THEN CASE m_expr[begin].type = "CONST" -> OkExpr(<< Constant(0) >>)
           [] m_expr[begin].type = "VAR" ->
                LET derivative == get_deriv(m_expr[f].op)
                IN  IF derivative.status # "ok" THEN derivative
                    ELSE OkExpr(<< Variable >> \o derivative.m_expr)
           [] OTHER -> Throw("logic_error")
    ELSE LET derivative == differentiate(m_expr, begin, f, lib)
             f_deriv == get_deriv(m_expr[f].op)
         IN  IF derivative.status # "ok" THEN derivative
             ELSE IF f_deriv.status # "ok" THEN f_deriv
             ELSE OkExpr(derivative.m_expr \o f_deriv.m_expr \o << BinOp("MUL") >>)

\* differentiate_func: [[g] f], the chain rule and its two fast paths.
differentiate_func(m_expr, begin, end, lib) ==
    LET f == end - 1
        g_end == f - 1
    IN
    IF m_expr[f].type # "FUNC" THEN Throw("InvalidDifferentiation")
    ELSE IF g_end < 1 \/ begin > f THEN Undefined(lib)
    ELSE IF begin = g_end
    THEN CASE m_expr[begin].type = "CONST" -> OkExpr(<< Constant(0) >>)
           [] m_expr[begin].type = "VAR" ->
                LET derivative == get_deriv(m_expr[f].op)
                IN  IF derivative.status # "ok" THEN derivative
                    ELSE OkExpr(<< Variable >> \o derivative.m_expr)
           [] OTHER -> Throw("logic_error")
    ELSE LET derivative == differentiate(m_expr, begin, f, lib)
             f_deriv == get_deriv(m_expr[f].op)
         IN  IF derivative.status # "ok" THEN derivative
             ELSE IF f_deriv.status # "ok" THEN f_deriv
             ELSE OkExpr(derivative.m_expr \o Slice(m_expr, begin, f)
                           \o f_deriv.m_expr \o << BinOp("MUL") >>)

\* differentiate_bin_op: dispatch on the operator.
differentiate_bin_op(m_expr, begin, end, lib) ==
    LET bin_op == m_expr[end - 1] IN
    IF bin_op.type # "BIN_OP" THEN Throw("InvalidDifferentiation")
    ELSE CASE bin_op.op \in {"ADD", "SUB"} -> differentiate_bin_op_add_sub(m_expr, begin, end, lib)
           [] bin_op.op = "MUL" -> differentiate_bin_op_mul(m_expr, begin, end, lib)
           [] bin_op.op = "DIV" -> differentiate_bin_op_div(m_expr, begin, end, lib)
           [] bin_op.op = "POW" -> differentiate_bin_op_pow(m_expr, begin, end, lib)
           [] OTHER -> Throw("InvalidDifferentiation")

\* expr::front(): declared `auto front()`, it returns the first token by value,
\* so an assignment through it changes a temporary and leaves the list as it
\* was.
front_assign_val(m_expr, val) == m_expr

\* differentiate_bin_op_add_sub: [[f] [g] +-].
differentiate_bin_op_add_sub(m_expr, begin, end0, lib) ==
    LET end == end0 - 1
        mid == subexpr_begin(m_expr, end)
    IN
    IF m_expr[end].op \notin {"ADD", "SUB"} THEN Throw("InvalidDifferentiation")
    ELSE IF mid < 2 \/ begin > mid THEN Undefined(lib)
    ELSE IF begin = mid - 1 /\ m_expr[begin].type = "CONST"
    THEN LET derivative == differentiate(m_expr, mid, end, lib) IN
         IF derivative.status # "ok" THEN derivative
         ELSE IF m_expr[end].op = "SUB"
         THEN IF Len(derivative.m_expr) = 1 /\ derivative.m_expr[1].type = "CONST"
              THEN OkExpr(front_assign_val(derivative.m_expr,
                                           VNeg(derivative.m_expr[1].val)))
              ELSE OkExpr(derivative.m_expr \o << Func("NEG") >>)
         ELSE derivative
    ELSE IF mid = end - 1 /\ m_expr[mid].type = "CONST"
    THEN differentiate(m_expr, begin, mid, lib)
    ELSE LET derivative == differentiate(m_expr, begin, mid, lib)
             g_deriv == differentiate(m_expr, mid, end, lib)
         IN  IF derivative.status # "ok" THEN derivative
             ELSE IF g_deriv.status # "ok" THEN g_deriv
             ELSE OkExpr(derivative.m_expr \o g_deriv.m_expr \o << m_expr[end] >>)

\* Fault seeding: the term [p_1] of the MUL and DIV rules without its closing
\* multiplication.
product_p_1_no_mul(m_expr, begin, mid, end, lib) ==
    IF begin = mid - 1
    THEN CASE m_expr[begin].type = "CONST" -> OkExpr(<< Constant(0) >>)
           [] m_expr[begin].type = "VAR" -> OkExpr(Slice(m_expr, mid, end))
           [] OTHER -> OkExpr(<< >>)
    ELSE LET f_deriv == differentiate(m_expr, begin, mid, lib) IN
         IF f_deriv.status # "ok" THEN f_deriv
         ELSE OkExpr(f_deriv.m_expr \o Slice(m_expr, mid, end))

\* The term [p_1] of the MUL and DIV rules: [0] for a bare Constant f, [g] for
\* the bare Variable, nothing for any other single token (the exception object
\* is built but never thrown), [[f'] [g] *] otherwise.
product_p_1(m_expr, begin, mid, end, lib) ==
    IF begin = mid - 1
    THEN CASE m_expr[begin].type = "CONST" -> OkExpr(<< Constant(0) >>)
           [] m_expr[begin].type = "VAR" -> OkExpr(Slice(m_expr, mid, end))
           [] OTHER -> OkExpr(<< >>)
    ELSE LET f_deriv == differentiate(m_expr, begin, mid, lib) IN
         IF f_deriv.status # "ok" THEN f_deriv
         ELSE OkExpr(f_deriv.m_expr \o Slice(m_expr, mid, end) \o << BinOp("MUL") >>)

\* differentiate_bin_op_mul: [[f] [g] *]. The fast path of [p_2] is guarded by
\* mid == std::prev(mid), which no iterator satisfies, so [p_2] always takes
\* the general branch; there p_2.insert is handed p_1.end(), an iterator of
\* another list, which is undefined. A checked build aborts. An unchecked one
\* links the nodes of [f] at the end of p_1 while p_2 counts them: p1 and p2
\* are the node chains, p1_size and p2_size what size() then reports.
differentiate_bin_op_mul(m_expr, begin, end0, lib) ==
    LET end == end0 - 1
        mid == subexpr_begin(m_expr, end)
    IN
    IF m_expr[end].op # "MUL" THEN Throw("InvalidDifferentiation")
    ELSE IF mid < 2 \/ begin > mid THEN Undefined(lib)
    ELSE
      LET p_1 == product_p_1(m_expr, begin, mid, end, lib)
          g_deriv == differentiate(m_expr, mid, end, lib)
          f == Slice(m_expr, begin, mid)
          p1 == p_1.m_expr \o f
          p2 == g_deriv.m_expr \o << BinOp("MUL") >>
          p1_size == IF lib = "cached" THEN Len(p_1.m_expr) ELSE Len(p1)
          p2_size == IF lib = "cached" THEN Len(p2) + Len(f) ELSE Len(p2)
      IN
      IF p_1.status # "ok" THEN p_1
      ELSE IF g_deriv.status # "ok" THEN g_deriv
      ELSE IF lib = "checked" THEN Crash
      ELSE IF IsStructuralZero(p1, p1_size) THEN OkExpr(p2)
      ELSE IF IsStructuralZero(p2, p2_size) THEN OkExpr(p1)
      ELSE OkExpr(p1 \o p2 \o << BinOp("ADD") >>)

\* differentiate_bin_op_div: [[f] [g] /].
differentiate_bin_op_div(m_expr, begin, end0, lib) ==
    LET end == end0 - 1
        mid == subexpr_begin(m_expr, end)
    IN
    IF m_expr[end].op # "DIV" THEN Throw("InvalidDifferentiation")
    ELSE IF mid < 2 \/ begin > mid THEN Undefined(lib)
    ELSE IF mid = end - 1 /\ m_expr[mid].type = "CONST"
    THEN LET derivative == differentiate(m_expr, begin, mid, lib) IN
         IF derivative.status # "ok" THEN derivative
         ELSE OkExpr(derivative.m_expr
                       \o << ConstantV(VDiv(Num(1), m_expr[mid].val)), BinOp("MUL") >>)
    ELSE
      LET f == Slice(m_expr, begin, mid)
          g == Slice(m_expr, mid, end)
          g_deriv == IF mid = end - 1 THEN OkExpr(<< >>)
                     ELSE differentiate(m_expr, mid, end, lib)
          p_2 == IF mid = end - 1
                 THEN (IF m_expr[mid].type = "VAR" THEN f ELSE << >>)
                 ELSE f \o g_deriv.m_expr \o << BinOp("MUL") >>
          p_3 == IF mid = end - 1
                 THEN (IF m_expr[mid].type = "VAR"
                       THEN << Variable, Variable, BinOp("MUL") >> ELSE << >>)
                 ELSE g \o g \o << BinOp("MUL") >>
          p_1 == product_p_1(m_expr, begin, mid, end, lib)
          numerator == IF IsStructuralZero(p_1.m_expr, Len(p_1.m_expr))
                       THEN p_2 \o << Func("NEG") >>
                       ELSE p_1.m_expr \o p_2 \o << BinOp("SUB") >>
      IN
      IF g_deriv.status # "ok" THEN g_deriv
      ELSE IF p_1.status # "ok" THEN p_1
      ELSE OkExpr(numerator \o p_3 \o << BinOp("DIV") >>)

\* Fault seeding: the term [p_1] of the POW rule folding [g] - 1 for a bare
\* Constant [g] in the general branch as well.
power_p_1_folded(m_expr, begin, mid, end, lib) ==
    LET f == Slice(m_expr, begin, mid)
        g == Slice(m_expr, mid, end)
        g_minus_1 == IF mid = end - 1 /\ m_expr[mid].type = "CONST"
                     THEN << ConstantV(VSub(m_expr[mid].val, Num(1))) >>
                     ELSE g \o << Constant(1), BinOp("SUB") >>
    IN
    IF begin = mid - 1
    THEN CASE m_expr[begin].type = "CONST" -> OkExpr(<< Constant(0) >>)
           [] m_expr[begin].type = "VAR" ->
                OkExpr(g \o f \o g_minus_1 \o << BinOp("POW"), BinOp("MUL") >>)
           [] OTHER -> OkExpr(<< >>)
    ELSE LET f_deriv == differentiate(m_expr, begin, mid, lib) IN
         IF f_deriv.status # "ok" THEN f_deriv
         ELSE OkExpr(f_deriv.m_expr \o g \o f \o g_minus_1
                       \o << BinOp("POW"), BinOp("MUL"), BinOp("MUL") >>)

\* Fault seeding: the term [p_1] of the POW rule with the exponent of a bare
\* Variable base left at [g] instead of [g] - 1.
power_p_1_same_exponent(m_expr, begin, mid, end, lib) ==
    LET f == Slice(m_expr, begin, mid)
        g == Slice(m_expr, mid, end)
    IN
    IF begin = mid - 1
    THEN CASE m_expr[begin].type = "CONST" -> OkExpr(<< Constant(0) >>)
           [] m_expr[begin].type = "VAR" ->
                OkExpr(g \o f \o g \o << BinOp("POW"), BinOp("MUL") >>)
           [] OTHER -> OkExpr(<< >>)
    ELSE LET f_deriv == differentiate(m_expr, begin, mid, lib) IN
         IF f_deriv.status # "ok" THEN f_deriv
         ELSE OkExpr(f_deriv.m_expr \o g \o f \o g
                       \o << Constant(1), BinOp("SUB"), BinOp("POW"),
                             BinOp("MUL"), BinOp("MUL") >>)

\* The term [p_1] of the POW rule.
power_p_1(m_expr, begin, mid, end, lib) ==
    LET f == Slice(m_expr, begin, mid)
        g == Slice(m_expr, mid, end)
    IN
    IF begin = mid - 1
    THEN CASE m_expr[begin].type = "CONST" -> OkExpr(<< Constant(0) >>)
           [] m_expr[begin].type = "VAR" ->
                OkExpr(g \o f
                       \o (IF mid = end - 1 /\ m_expr[mid].type = "CONST"
                           THEN << ConstantV(VSub(m_expr[mid].val, Num(1))) >>
                           ELSE g \o << Constant(1), BinOp("SUB") >>)
                       \o << BinOp("POW"), BinOp("MUL") >>)
           [] OTHER -> OkExpr(<< >>)
    ELSE LET f_deriv == differentiate(m_expr, begin, mid, lib) IN
         IF f_deriv.status # "ok" THEN f_deriv
         ELSE OkExpr(f_deriv.m_expr \o g \o f \o g
                       \o << Constant(1), BinOp("SUB"), BinOp("POW"),
                             BinOp("MUL"), BinOp("MUL") >>)

\* Fault seeding: the term [p_2] of the POW rule without the logarithm of a
\* base raised to the bare Variable.
power_p_2_no_log(m_expr, begin, mid, end, lib) ==
    LET f == Slice(m_expr, begin, mid)
        g == Slice(m_expr, mid, end)
    IN
    IF mid = end - 1
    THEN CASE m_expr[mid].type = "CONST" -> OkExpr(<< Constant(0) >>)
           [] m_expr[mid].type = "VAR" -> OkExpr(f \o g \o << BinOp("POW") >>)
           [] OTHER -> OkExpr(<< >>)
    ELSE LET g_deriv == differentiate(m_expr, mid, end, lib) IN
         IF g_deriv.status # "ok" THEN g_deriv
         ELSE OkExpr(g_deriv.m_expr \o f \o << Func("LOG") >> \o f \o g
                       \o << BinOp("POW"), BinOp("MUL"), BinOp("MUL") >>)

\* The term [p_2] of the POW rule.
power_p_2(m_expr, begin, mid, end, lib) ==
    LET f == Slice(m_expr, begin, mid)
        g == Slice(m_expr, mid, end)
    IN
    IF mid = end - 1
    THEN CASE m_expr[mid].type = "CONST" -> OkExpr(<< Constant(0) >>)
           [] m_expr[mid].type = "VAR" ->
                OkExpr(f \o << Func("LOG") >> \o f \o g
                       \o << BinOp("POW"), BinOp("MUL") >>)
           [] OTHER -> OkExpr(<< >>)
    ELSE LET g_deriv == differentiate(m_expr, mid, end, lib) IN
         IF g_deriv.status # "ok" THEN g_deriv
         ELSE OkExpr(g_deriv.m_expr \o f \o << Func("LOG") >> \o f \o g
                       \o << BinOp("POW"), BinOp("MUL"), BinOp("MUL") >>)

\* differentiate_bin_op_pow: [[f] [g] ^].
differentiate_bin_op_pow(m_expr, begin, end0, lib) ==
    LET end == end0 - 1
        mid == subexpr_begin(m_expr, end)
    IN
    IF m_expr[end].op # "POW" THEN Throw("InvalidDifferentiation")
    ELSE IF mid < 2 \/ begin > mid THEN Undefined(lib)
    ELSE
      LET p_1 == power_p_1(m_expr, begin, mid, end, lib)
          p_2 == power_p_2(m_expr, begin, mid, end, lib)
      IN
      IF p_1.status # "ok" THEN p_1
      ELSE IF begin = mid - 1 /\ m_expr[begin].type = "CONST" /\ IsZero(m_expr[begin].val)
      THEN p_1
      ELSE IF p_2.status # "ok" THEN p_2
      ELSE IF IsStructuralZero(p_1.m_expr, Len(p_1.m_expr)) THEN p_2
      ELSE IF IsStructuralZero(p_2.m_expr, Len(p_2.m_expr)) THEN p_1
      ELSE OkExpr(p_1.m_expr \o p_2.m_expr \o << BinOp("ADD") >>)

\* ------------------------------------------------------------------ inputs
\* All sequences over S of length 1 .. n.
SeqsUpTo(S, n) == UNION { [1..k -> S] : k \in 1..n }

Leaves == { Variable } \cup { Constant(c) : c \in 0..MaxConst }
PostfixFuncs == { Func("SIN"), Func("COS"), Func("NEG"), Func("LOG") }
PostfixBinOps == { BinOp(op) : op \in BinaryOps }

\* The well-formed postfix sequences of exactly n tokens, built bottom-up:
\* a leaf, [g] f, or [f] [g] op.
RECURSIVE PostfixOfLen(_)
PostfixOfLen(n) ==
    IF n = 1 THEN { << l >> : l \in Leaves }
    ELSE { g \o << f >> : g \in PostfixOfLen(n - 1), f \in PostfixFuncs }
         \cup UNION { { f \o g \o << op >> :
                          f \in PostfixOfLen(k), g \in PostfixOfLen(n - 1 - k),
                          op \in PostfixBinOps } : k \in 1..(n - 2) }

\* The same construction over the small alphabet z, 2, sin, +, *, which
\* reaches compound operands on both sides of an operator.
RECURSIVE ShapeOfLen(_)
ShapeOfLen(n) ==
    IF n = 1 THEN { << Variable >>, << Constant(2) >> }
    ELSE { g \o << Func("SIN") >> : g \in ShapeOfLen(n - 1) }
         \cup UNION { { f \o g \o << op >> :
                          f \in ShapeOfLen(k), g \in ShapeOfLen(n - 1 - k),
                          op \in { BinOp("ADD"), BinOp("MUL") } } : k \in 1..(n - 2) }

PostfixInputs ==
    UNION { PostfixOfLen(n) : n \in 1..MaxPostfixLen }
    \cup UNION { ShapeOfLen(n) : n \in 1..MaxShapeLen }

\* Postfix-tagged sequences of arbitrary tokens (malformed ones included): an
\* expr can be built from any token list, expr(std::initializer_list, true).
RawAlphabet ==
    { Variable, Constant(2), Func("SIN"), BinOp("ADD"), BinOp("MUL"), BinOp("DIV"),
      BinOp("POW"), Bracket("L_BRACKET"), token("BIN_OP", "NO_OP", Num(0)) }
RawInputs == SeqsUpTo(RawAlphabet, MaxRawLen)

\* [f] [g] op for the MUL, DIV and POW rules, each operand bare or compound.
BareOperands == { << Variable >>, << Constant(2) >> }
CompoundOperands ==
    { << Variable, Func("SIN") >>, << Variable, Func("COS") >>,
      << Variable, Constant(2), BinOp("ADD") >>,
      << Variable, Constant(3), BinOp("POW") >> }
RuleInputs ==
    { f \o g \o << BinOp(op) >> :
        f \in BareOperands \cup CompoundOperands,
        g \in BareOperands \cup CompoundOperands,
        op \in {"MUL", "DIV", "POW"} }

\* [g] f for the chain rule and [f] [g] op for the ADD and SUB rules, each
\* operand bare or compound.
ChainInputs ==
    { g \o << Func(f) >> : g \in CompoundOperands, f \in {"SIN", "COS"} }
SumInputs ==
    { f \o g \o << BinOp(op) >> :
        f \in BareOperands \cup CompoundOperands,
        g \in BareOperands \cup CompoundOperands,
        op \in {"ADD", "SUB"} }

\* Infix token sequences: every sequence of up to MaxInfixLen tokens over a
\* small alphabet (malformed ones included), and the shapes a op b op c,
\* (a op b) op c, c op (a op b), (a op b and a op b) over more operands.
InfixAlphabet ==
    { Variable, Constant(2), BinOp("ADD"), BinOp("MUL"), BinOp("POW"),
      Bracket("L_BRACKET"), Bracket("R_BRACKET"), Func("SIN"), Func("NEG") }
OperandA == { Variable, Constant(3) }
OperandB == { Variable, Constant(4) }
OperandC == { Variable, Constant(2) }
InfixBinOps == { BinOp("ADD"), BinOp("SUB"), BinOp("MUL"), BinOp("POW") }
LB == Bracket("L_BRACKET")
RB == Bracket("R_BRACKET")

InfixShapes ==
    UNION { UNION { { << a, o1, b, o2, c >>,
                      << LB, a, o1, b, RB, o2, c >>,
                      << c, o2, LB, a, o1, b, RB >> } :
                    o1 \in InfixBinOps, o2 \in InfixBinOps } :
            a \in OperandA, b \in OperandB, c \in OperandC }
    \cup UNION { { << LB, a, o1, b >>, << a, o1, b, RB >> } :
                 a \in OperandA, b \in OperandB, o1 \in InfixBinOps }

InfixInputs == SeqsUpTo(InfixAlphabet, MaxInfixLen) \cup InfixShapes

\* Infix sequences with a unary function or a bracketed operand: f x o 2,
\* f ( x ) o 2, f ( x ), f ( x o 2 ), 2 o ( x ) and ( x ) o 2.
InfixFuncs == { Func("NEG"), Func("SIN") }
InfixOperands == { Variable, Constant(3) }
AllBinOps == { BinOp(op) : op \in BinaryOps }
UnaryInputs ==
    UNION { { << f, x, o, Constant(2) >>,
              << f, LB, x, RB, o, Constant(2) >>,
              << f, LB, x, RB >>,
              << f, LB, x, o, Constant(2), RB >>,
              << Constant(2), o, LB, x, RB >>,
              << LB, x, RB, o, Constant(2) >> } :
            f \in InfixFuncs, x \in InfixOperands, o \in AllBinOps }

SamplePoints == { Num(k) : k \in 0..MaxPoint } \cup { HalfPi }

\* Input strings: every string of up to MaxTextLen characters over an alphabet
\* with the escape, the letters of a known name (re) and of no name (x), a
\* name terminator, an operator, a variable and a digit.
TextAlphabet == {"\\", "r", "e", "x", "(", "^", "z", "2"}
TextInputs == SeqsUpTo(TextAlphabet, MaxTextLen)

\* The call \name(z) of every name of the operation table that is not a
\* single character.
NameInputs ==
    { << "\\" >> \o entry[1] \o << "(", "z", ")" >> :
        entry \in { en \in OperationTable : Len(en[1]) > 1 } }

\* What an unchecked read of the top of an empty std::stack may find.
JunkTokens == { Func("SIN"), Bracket("L_BRACKET"), Constant(0) }

\* ------------------------------------------------------------------ state
VARIABLES
    e,        \* the expr object worked on: [m_expr, m_postfix]
    src,      \* the expression, or the string, the program started from
    hist,     \* the calls whose results led from src to e
    lib,      \* the build of the standard library, "any" until it matters
    pc,       \* "ready", "postfix" while expr::postfix() runs its loop, or
              \* "input" while the string has not been parsed
    it,       \* postfix(): position of the token the loop is at
    stack,    \* postfix(): the operator stack, top last
    postfix,  \* postfix(): the output list
    call,     \* the last call made on e: [op, z, end]
    ret       \* what that call returned

vars == << e, src, hist, lib, pc, it, stack, postfix, call, ret >>

Expr(m_expr, m_postfix) == [m_expr |-> m_expr, m_postfix |-> m_postfix]
\* Fault seeding: the converted list wrapped without the postfix tag.
expr_from_list_untagged(other) == Expr(other, FALSE)

\* expr(std::list&&, bool postfix = true): the conversion that turns the list
\* postfix() returns into an expr.
expr_from_list(other) == Expr(other, TRUE)
Call(op, z, end) == [op |-> op, z |-> z, end |-> end]
\* A program that starts from a string: no expr exists until it is parsed.
Text(chars) == [m_expr |-> << >>, m_postfix |-> FALSE, text |-> chars]
NoOp == Call("none", Num(0), 0)

\* The builds still possible.
LibChoices == IF lib = "any" THEN Builds ELSE { lib }

\* Every operation is const and leaves the expression untouched, so what a call
\* returns does not depend on earlier calls: the program below makes one call on
\* the expression at hand and then either stops or goes on with the result.

Init ==
    /\ \/ /\ e \in { Expr(m, TRUE) : m \in PostfixInputs \cup RawInputs \cup RuleInputs
                                             \cup ChainInputs \cup SumInputs }
                   \cup { Expr(m, FALSE) : m \in InfixInputs \cup UnaryInputs }
          /\ src = e
          /\ pc = "ready"
       \/ /\ src \in { Text(chars) : chars \in TextInputs \cup NameInputs }
          /\ e = Expr(<< >>, FALSE)
          /\ pc = "input"
    /\ hist = << >>
    /\ lib = "any"
    /\ it = 0
    /\ stack = << >>
    /\ postfix = << >>
    /\ call = NoOp
    /\ ret = NoCall

\* ------------------------------------------------------------------ parsing
\* expr<T> infix(text): the constructor either builds the infix expression or
\* throws, and then there is no expression to go on with.
Parse ==
    /\ pc = "input"
    /\ LET built == expr_from_string(src.text) IN
       IF built.status = "ok"
       THEN /\ e' = Expr(built.m_expr, built.m_postfix)
            /\ call' = NoOp
            /\ ret' = NoCall
       ELSE /\ call' = Call("parse", Num(0), 0)
            /\ ret' = built
            /\ e' = e
    /\ pc' = "ready"
    /\ UNCHANGED << src, hist, lib, it, stack, postfix >>

\* ------------------------------------------------------------------ postfix()
\* expr::postfix() on an expression already tagged postfix: return *this.
PostfixReturnThis ==
    /\ pc = "ready"
    /\ call = NoOp
    /\ e.m_postfix
    /\ call' = Call("postfix", Num(0), 0)
    /\ ret' = Outcome("ok", e.m_expr, e.m_postfix, Num(0))
    /\ UNCHANGED << e, src, hist, lib, pc, it, stack, postfix >>

\* expr::postfix() on an infix expression: enter the conversion loop.
PostfixBegin ==
    /\ pc = "ready"
    /\ call = NoOp
    /\ ~e.m_postfix
    /\ pc' = "postfix"
    /\ it' = 1
    /\ stack' = << >>
    /\ postfix' = << >>
    /\ call' = Call("postfix", Num(0), 0)
    /\ ret' = NoCall
    /\ UNCHANGED << e, src, hist, lib >>

\* The call ends: with an exception, by a crash, or in an undefined state.
Finish(outcome) ==
    /\ pc' = "ready"
    /\ ret' = outcome
    /\ UNCHANGED << e, src, hist, it, call >>

InLoop == pc = "postfix" /\ it <= Len(e.m_expr)

Top(s) == s[Len(s)]
Pop(s) == SubSeq(s, 1, Len(s) - 1)
\* The n topmost entries of s in the order they are popped.
Popped(s, n) == [ j \in 1..n |-> s[Len(s) + 1 - j] ]

\* VAR or CONST: emitted at once.
StepOperand ==
    /\ InLoop
    /\ e.m_expr[it].type \in {"VAR", "CONST"}
    /\ postfix' = Append(postfix, e.m_expr[it])
    /\ it' = it + 1
    /\ UNCHANGED << e, src, hist, lib, pc, stack, call, ret >>

\* FUNC: pushed.
StepFunc ==
    /\ InLoop
    /\ e.m_expr[it].type = "FUNC"
    /\ stack' = Append(stack, e.m_expr[it])
    /\ it' = it + 1
    /\ UNCHANGED << e, src, hist, lib, pc, postfix, call, ret >>

\* Fault seeding: the BIN_OP loop popping only strictly higher precedences.
RECURSIVE pops_for_strict(_, _)
pops_for_strict(s, t_precedence) ==
    IF s # << >> /\ Top(s).op # "L_BRACKET" /\ get_precedence(Top(s).op) > t_precedence
    THEN 1 + pops_for_strict(Pop(s), t_precedence)
    ELSE 0

\* How many entries the loop of the BIN_OP branch pops: the run at the top of
\* the stack that holds no open bracket and only precedences >= t_precedence.
RECURSIVE pops_for(_, _)
pops_for(s, t_precedence) ==
    IF s # << >> /\ Top(s).op # "L_BRACKET" /\ get_precedence(Top(s).op) >= t_precedence
    THEN 1 + pops_for(Pop(s), t_precedence)
    ELSE 0

\* BIN_OP: pop and emit while the top binds at least as tightly, then push.
StepBinOp ==
    /\ InLoop
    /\ e.m_expr[it].type = "BIN_OP"
    /\ LET t == e.m_expr[it]
           n == pops_for(stack, get_precedence(t.op))
       IN  /\ postfix' = postfix \o Popped(stack, n)
           /\ stack' = Append(SubSeq(stack, 1, Len(stack) - n), t)
    /\ it' = it + 1
    /\ UNCHANGED << e, src, hist, lib, pc, call, ret >>

\* An open bracket: pushed.
StepLBracket ==
    /\ InLoop
    /\ e.m_expr[it].type = "OTHER_TYPE"
    /\ e.m_expr[it].op = "L_BRACKET"
    /\ stack' = Append(stack, e.m_expr[it])
    /\ it' = it + 1
    /\ UNCHANGED << e, src, hist, lib, pc, postfix, call, ret >>

\* Entries above the topmost open bracket of s (all of s when it holds none).
RECURSIVE above_bracket(_)
above_bracket(s) ==
    IF s = << >> \/ Top(s).op = "L_BRACKET" THEN 0 ELSE 1 + above_bracket(Pop(s))

\* A close bracket. The loop pops and emits down to the open bracket, reading
\* stack.top() before it tests stack.empty(); after discarding the bracket it
\* reads stack.top() again to look for a pending function. Either read is
\* undefined on an empty stack: a checked build aborts, an unchecked one
\* faults or goes on with whatever token `junk` it finds there.
StepRBracket ==
    /\ InLoop
    /\ e.m_expr[it].type = "OTHER_TYPE"
    /\ e.m_expr[it].op = "R_BRACKET"
    /\ LET n == above_bracket(stack)
           emitted == postfix \o Popped(stack, n)
           rest == SubSeq(stack, 1, Len(stack) - n - 1)
       IN
       IF n = Len(stack)
       THEN \* no open bracket: the stack runs empty inside the loop condition
            /\ postfix' = emitted
            /\ stack' = << >>
            /\ \E b \in LibChoices :
                 /\ lib' = b
                 /\ \/ Finish(Crash)
                    \/ /\ b # "checked"
                       /\ \E junk \in JunkTokens :
                            IF junk.op # "L_BRACKET"
                            THEN Finish(Throw("MismatchedBrackets"))
                            ELSE Finish(Undefined(b))
       ELSE IF rest # << >>
       THEN \* the bracket is discarded and something lies beneath it
            /\ IF Top(rest).type = "FUNC"
               THEN postfix' = Append(emitted, Top(rest)) /\ stack' = Pop(rest)
               ELSE postfix' = emitted /\ stack' = rest
            /\ it' = it + 1
            /\ UNCHANGED << e, src, hist, lib, pc, call, ret >>
       ELSE \* the bracket is discarded and the stack is empty
            /\ stack' = << >>
            /\ \E b \in LibChoices :
                 /\ lib' = b
                 /\ \/ postfix' = emitted /\ Finish(Crash)
                    \/ /\ b # "checked"
                       /\ \E junk \in JunkTokens :
                            IF junk.type = "FUNC"
                            THEN postfix' = Append(emitted, junk) /\ Finish(Undefined(b))
                            ELSE /\ postfix' = emitted
                                 /\ it' = it + 1
                                 /\ UNCHANGED << e, src, hist, pc, call, ret >>

\* Fault seeding: the end-of-input drain without the open-bracket test.
StepEnd_unguarded ==
    /\ pc = "postfix"
    /\ it > Len(e.m_expr)
    /\ postfix' = postfix \o Popped(stack, Len(stack))
    /\ stack' = << >>
    /\ Finish(Outcome("ok", postfix \o Popped(stack, Len(stack)), TRUE, Num(0)))
    /\ UNCHANGED lib

\* End of input: the remaining operators are emitted; an open bracket among
\* them throws, otherwise the list is returned (as an expr tagged postfix).
StepEnd ==
    /\ pc = "postfix"
    /\ it > Len(e.m_expr)
    /\ LET n == above_bracket(stack) IN
       /\ postfix' = postfix \o Popped(stack, n)
       /\ stack' = SubSeq(stack, 1, Len(stack) - n)
       /\ IF n < Len(stack)
          THEN Finish(Throw("MismatchedBrackets"))
          ELSE LET r == expr_from_list(postfix \o Popped(stack, n))
               IN  Finish(Outcome("ok", r.m_expr, r.m_postfix, Num(0)))
    /\ UNCHANGED lib

\* ------------------------------------------------------------------ calls
\* differentiate(const expr&) on the expression at hand.
Differentiate ==
    /\ pc = "ready"
    /\ call = NoOp
    /\ e.m_postfix
    /\ LET checked == differentiate(e.m_expr, 1, Len(e.m_expr) + 1, "checked") IN
       IF checked.status # "crash"
       THEN ret' = checked /\ lib' = lib
       ELSE \E b \in LibChoices :
              /\ ret' = differentiate(e.m_expr, 1, Len(e.m_expr) + 1, b)
              /\ lib' = b
    /\ call' = Call("differentiate", Num(0), 0)
    /\ UNCHANGED << e, src, hist, pc, it, stack, postfix >>

\* e.evaluate(z) at a sample point.
Evaluate ==
    /\ pc = "ready"
    /\ call = NoOp
    /\ e.m_postfix
    /\ \E z \in SamplePoints :
         LET checked == evaluate(e.m_expr, z, "checked", OtherVal) IN
         /\ call' = Call("evaluate", z, 0)
         /\ IF checked.status # "crash"
            THEN ret' = checked /\ lib' = lib
            ELSE \E b \in LibChoices, junk \in { OtherVal, Num(0) } :
                   /\ ret' = evaluate(e.m_expr, z, b, junk)
                   /\ lib' = b
    /\ UNCHANGED << e, src, hist, pc, it, stack, postfix >>

\* expr::subexpr_begin(end) with end an iterator into the expression at hand.
SubexprBegin ==
    /\ pc = "ready"
    /\ call = NoOp
    /\ e.m_postfix
    /\ \E end \in 2..(Len(e.m_expr) + 1) :
         LET start == subexpr_begin(e.m_expr, end) IN
         /\ call' = Call("subexpr_begin", Num(0), end)
         /\ IF start # 0
            THEN ret' = OkPos(start) /\ lib' = lib
            ELSE \E b \in LibChoices : ret' = Undefined(b) /\ lib' = b
    /\ UNCHANGED << e, src, hist, pc, it, stack, postfix >>

\* The program goes on with the expression the last call returned
\* (auto postfix = infix.postfix(); auto deriv = differentiate(postfix);).
Take ==
    /\ pc = "ready"
    /\ ret.status = "ok"
    /\ call.op \in {"postfix", "differentiate"}
    /\ Len(hist) < MaxChain
    /\ Len(ret.m_expr) <= MaxTakenLen
    /\ e' = Expr(ret.m_expr, ret.m_postfix)
    /\ hist' = Append(hist, call.op)
    /\ call' = NoOp
    /\ ret' = NoCall
    /\ it' = 0
    /\ stack' = << >>
    /\ postfix' = << >>
    /\ UNCHANGED << src, lib, pc >>

Next ==
    \/ Parse
    \/ PostfixReturnThis
    \/ PostfixBegin
    \/ StepOperand
    \/ StepFunc
    \/ StepBinOp
    \/ StepLBracket
    \/ StepRBracket
    \/ StepEnd
    \/ Differentiate
    \/ Evaluate
    \/ SubexprBegin
    \/ Take

Spec == Init /\ [][Next]_vars

\* ------------------------------------------------------------------ properties
\* How many complete values the first i tokens of m leave behind: an operand
\* adds one, a function replaces one, a binary operator replaces two by one.
\* The count is summed over the two halves of the range, which keeps the
\* evaluation shallow on long sequences.
RECURSIVE ValuesBetween(_, _, _)
ValuesBetween(m, lo, hi) ==
    IF lo > hi THEN 0
    ELSE IF lo = hi
    THEN (CASE m[lo].type \in {"VAR", "CONST"} -> 1
            [] m[lo].type = "BIN_OP" -> -1
            [] OTHER -> 0)
    ELSE LET mid == (lo + hi) \div 2
         IN  ValuesBetween(m, lo, mid) + ValuesBetween(m, mid + 1, hi)

Values(m, i) == ValuesBetween(m, 1, i)

\* m is a well-formed postfix sequence: no bracket, every operator finds its
\* operands, and exactly one value is left.
\* The least of Values(m, i) over the non-empty prefixes that end in lo..hi,
\* counted from position lo on (again over the two halves of the range).
RECURSIVE LeastValues(_, _, _)
LeastValues(m, lo, hi) ==
    IF lo = hi THEN ValuesBetween(m, lo, lo)
    ELSE LET mid == (lo + hi) \div 2
             left == LeastValues(m, lo, mid)
             right == ValuesBetween(m, lo, mid) + LeastValues(m, mid + 1, hi)
         IN  IF left <= right THEN left ELSE right

WellFormed(m) ==
    /\ Len(m) > 0
    /\ Values(m, Len(m)) = 1
    /\ \A i \in 1..Len(m) : m[i].type # "OTHER_TYPE"
    /\ LeastValues(m, 1, Len(m)) >= 1

\* Brackets open after the first i tokens of m.
RECURSIVE Depth(_, _)
Depth(m, i) ==
    IF i = 0 THEN 0
    ELSE Depth(m, i - 1)
         + (CASE m[i] = LB -> 1
              [] m[i] = RB -> -1
              [] OTHER -> 0)

\* Integer power by repeated multiplication.
RECURSIVE Expt(_, _)
Expt(v, k) == IF k = 0 THEN 1 ELSE v * Expt(v, k - 1)

\* The call `op` was made on the expression m as the program's first call.
Called(op, m, m_postfix) ==
    /\ hist = << >>
    /\ e = Expr(m, m_postfix)
    /\ call.op = op
    /\ pc = "ready"

\* `op` is called on what `first` returned for the expression m.
CalledAfter(first, op, m, m_postfix) ==
    /\ hist = << first >>
    /\ src = Expr(m, m_postfix)
    /\ call.op = op
    /\ pc = "ready"

\* C1: on a well-formed postfix sequence, subexpr_begin(end) returns the start
\* of the one well-formed slice that ends at end (so no shorter slice is a
\* complete subexpression); when end is the position of the binary operator of
\* [f] [g] op, the slice [start, end) is [g] and what lies between the start of
\* the whole subexpression and start is the well-formed [f].
C1_SubexprBeginMinimalSlice ==
    (call.op = "subexpr_begin" /\ WellFormed(e.m_expr)) =>
        LET m == e.m_expr
            end == call.end
            start == ret.pos
        IN  /\ ret.status = "ok"
            /\ start \in 1..(end - 1)
            /\ WellFormed(Slice(m, start, end))
            /\ \A s \in 1..(end - 1) : s # start => ~WellFormed(Slice(m, s, end))
            /\ (end <= Len(m) /\ m[end].type = "BIN_OP") =>
                   \E begin \in 1..(start - 1) :
                       /\ WellFormed(Slice(m, begin, end + 1))
                       /\ WellFormed(Slice(m, begin, start))

\* C1 witness: both operands of the operator are compound, [z sin] [z sin] op.
C1_Witness ==
    /\ call.op = "subexpr_begin"
    /\ WellFormed(e.m_expr)
    /\ Len(e.m_expr) = 5
    /\ e.m_expr[5].type = "BIN_OP"
    /\ call.end = 5
    /\ ret.status = "ok"
    /\ ret.pos = 3

\* C2: differentiate([z z *]) returns an expression that evaluates to 2*v at
\* every sampled point v.
C2_ProductOfVariables ==
    Called("differentiate", << Variable, Variable, BinOp("MUL") >>, TRUE) =>
        /\ ret.status = "ok"
        /\ \A v \in 0..MaxPoint :
               evaluate(ret.m_expr, Num(v), "checked", OtherVal) = OkVal(Num(2 * v))

C4_BracketedOperandFirst ==
    /\ \A a \in OperandA, b \in OperandB, c \in OperandC,
          o1 \in InfixBinOps, o2 \in InfixBinOps :
           Called("postfix", << LB, a, o1, b, RB, o2, c >>, FALSE) =>
               /\ ret.status = "ok"
               /\ ret.m_expr = << a, b, o1, c, o2 >>
    /\ CalledAfter("postfix", "evaluate",
                   << LB, Constant(3), BinOp("ADD"), Constant(4), RB,
                      BinOp("MUL"), Constant(2) >>, FALSE)
           => ret = OkVal(Num(14))

\* One step of the BIN_OP branch: the entries popped are the topmost run of the
\* stack holding no open bracket and only precedences >= the operator's own,
\* the run is maximal, its entries are emitted in pop order, and the operator
\* is pushed.
C5_Step ==
    (InLoop /\ e.m_expr[it].type = "BIN_OP") =>
        LET t == e.m_expr[it]
            own == get_precedence(t.op)
            kept == Len(stack') - 1
            n == Len(stack) - kept
        IN  /\ kept \in 0..Len(stack)
            /\ stack' = Append(SubSeq(stack, 1, kept), t)
            /\ postfix' = postfix \o [ j \in 1..n |-> stack[Len(stack) + 1 - j] ]
            /\ \A j \in (kept + 1)..Len(stack) :
                   stack[j].op # "L_BRACKET" /\ get_precedence(stack[j].op) >= own
            /\ kept > 0 =>
                   \/ stack[kept].op = "L_BRACKET"
                   \/ get_precedence(stack[kept].op) < own
            /\ it' = it + 1

\* What the rule gives on three-operand inputs.
C5_Examples ==
    /\ \A a \in OperandA, b \in OperandB, c \in OperandC :
           /\ Called("postfix", << a, BinOp("ADD"), b, BinOp("MUL"), c >>, FALSE) =>
                  /\ ret.status = "ok"
                  /\ ret.m_expr = << a, b, c, BinOp("MUL"), BinOp("ADD") >>
           /\ Called("postfix", << a, BinOp("SUB"), b, BinOp("SUB"), c >>, FALSE) =>
                  /\ ret.status = "ok"
                  /\ ret.m_expr = << a, b, BinOp("SUB"), c, BinOp("SUB") >>
           /\ Called("postfix", << a, BinOp("POW"), b, BinOp("POW"), c >>, FALSE) =>
                  /\ ret.status = "ok"
                  /\ ret.m_expr = << a, b, BinOp("POW"), c, BinOp("POW") >>
    /\ CalledAfter("postfix", "evaluate",
                   << Constant(3), BinOp("ADD"), Constant(4), BinOp("MUL"),
                      Constant(2) >>, FALSE)
           => ret = OkVal(Num(11))

\* C5: a binary operator first pops and emits every stacked operator, down to
\* but not past an open bracket, whose precedence is >= its own, then is
\* pushed; so a + b * c becomes [a b c * +] (3 + 4 * 2 evaluates to 11) and
\* operators of equal precedence group to the left: a - b - c becomes
\* [a b - c -] and a ^ b ^ c becomes [a b ^ c ^].
C5_BinaryOperatorPrecedence == [][C5_Step /\ C5_Examples']_vars

\* C5 witness: a - b - c converted, the first operator popped by the second.
C5_Witness ==
    /\ Called("postfix", << Variable, BinOp("SUB"), Constant(4), BinOp("SUB"),
                           Constant(2) >>, FALSE)
    /\ ret.status = "ok"
    /\ ret.m_expr = << Variable, Constant(4), BinOp("SUB"), Constant(2), BinOp("SUB") >>

\* m holds a closing bracket with no open bracket before it left to match.
UnmatchedClose(m) ==
    \E i \in 1..Len(m) :
        /\ m[i] = RB
        /\ Depth(m, i - 1) = 0
        /\ \A j \in 1..(i - 1) : Depth(m, j) >= 0

\* C6: the conversion of an infix sequence with a closing bracket that has no
\* matching open bracket fails with MismatchedBrackets.
C6_UnmatchedCloseBracket ==
    ( /\ hist = << >>
      /\ ~e.m_postfix
      /\ call.op = "postfix"
      /\ pc = "ready"
      /\ UnmatchedClose(e.m_expr) ) => ret.status = "MismatchedBrackets"

C8_PostfixIdentityIdempotent ==
    /\ (call.op = "postfix" /\ e.m_postfix) =>
           /\ pc = "ready"
           /\ ret = Outcome("ok", e.m_expr, TRUE, Num(0))
    /\ (call.op = "postfix" /\ pc = "ready" /\ ~e.m_postfix /\ ret.status = "ok") =>
           ret.m_postfix
    /\ (hist = << "postfix" >> /\ ~src.m_postfix /\ call.op = "postfix") =>
           /\ pc = "ready"
           /\ ret.status = "ok"
           /\ ret.m_expr = e.m_expr

\* C8 witness: a conversion that reordered its input has been converted again.
C8_Witness ==
    /\ hist = << "postfix" >>
    /\ ~src.m_postfix
    /\ call.op = "postfix"
    /\ ret.status = "ok"
    /\ Len(ret.m_expr) >= 3
    /\ ret.m_expr # src.m_expr
    /\ ret.m_expr = e.m_expr

C10_UnaryFunctionFastPaths ==
    /\ \A op \in {"SIN", "COS"}, c \in 0..MaxConst :
           Called("differentiate", << Constant(c), Func(op) >>, TRUE) =>
               ret = OkExpr(<< Constant(0) >>)
    /\ Called("differentiate", << Variable, Func("SIN") >>, TRUE) =>
           ret = OkExpr(<< Variable, Func("COS") >>)
    /\ Called("differentiate", << Variable, Func("COS") >>, TRUE) =>
           ret = OkExpr(<< Variable, Func("SIN"), Func("NEG") >>)
    /\ CalledAfter("differentiate", "evaluate", << Variable, Func("COS") >>, TRUE) =>
           /\ call.z = Num(0) => ret = OkVal(Num(0))
           /\ call.z = HalfPi => ret = OkVal(Num(-1))

\* C10 witness: the derivative of cos z has been evaluated at pi/2.
C10_Witness ==
    /\ CalledAfter("differentiate", "evaluate", << Variable, Func("COS") >>, TRUE)
    /\ call.z = HalfPi
    /\ ret = OkVal(Num(-1))

\* The derivative expected of each operand of RuleInputs.
ExpectedDerivative(x) ==
    CASE x = << Variable >> -> << Constant(1) >>
      [] x = << Constant(2) >> -> << Constant(0) >>
      [] x = << Variable, Func("SIN") >> -> << Variable, Func("COS") >>
      [] x = << Variable, Func("COS") >> -> << Variable, Func("SIN"), Func("NEG") >>
      [] x = << Variable, Constant(2), BinOp("ADD") >> -> << Constant(1) >>
      [] x = << Variable, Constant(3), BinOp("POW") >> ->
             << Constant(3), Variable, Constant(2), BinOp("POW"), BinOp("MUL") >>

\* sub occurs in m as a run of consecutive tokens.
Contains(m, sub) ==
    \E i \in 1..(Len(m) - Len(sub) + 1) : SubSeq(m, i, i + Len(sub) - 1) = sub

\* C11: for every nonzero Constant c, differentiate([c z ^]) is exactly
\* [c log c z ^ *] (p1 vanishes, only p2 remains), and the chain to_postfix ->
\* differentiate on the infix tokens c ^ z completes with that result.
C11_ConstantBaseToVariable ==
    /\ \A c \in 1..MaxConst :
           ( /\ call.op = "differentiate"
             /\ e = Expr(<< Constant(c), Variable, BinOp("POW") >>, TRUE) ) =>
               ret = OkExpr(<< Constant(c), Func("LOG"), Constant(c), Variable,
                               BinOp("POW"), BinOp("MUL") >>)
    /\ ( /\ hist = << "postfix" >>
         /\ src = Expr(<< Constant(2), BinOp("POW"), Variable >>, FALSE) ) =>
           /\ e = Expr(<< Constant(2), Variable, BinOp("POW") >>, TRUE)
           /\ call.op = "differentiate" =>
                  ret = OkExpr(<< Constant(2), Func("LOG"), Constant(2), Variable,
                                  BinOp("POW"), BinOp("MUL") >>)
    /\ (pc # "input" /\ src = Text(<< "2", "^", "z" >>)) =>
           /\ hist = << >> =>
                  e = Expr(<< Constant(2), BinOp("POW"), Variable >>, FALSE)
           /\ hist = << "postfix" >> =>
                  /\ e = Expr(<< Constant(2), Variable, BinOp("POW") >>, TRUE)
                  /\ call.op = "differentiate" =>
                         ret = OkExpr(<< Constant(2), Func("LOG"), Constant(2),
                                         Variable, BinOp("POW"), BinOp("MUL") >>)

\* C11 witness: the string 2^z has been parsed, the expression converted and
\* the result differentiated.
C11_Witness ==
    /\ hist = << "postfix" >>
    /\ src = Text(<< "2", "^", "z" >>)
    /\ call.op = "differentiate"
    /\ pc = "ready"
    /\ ret.status = "ok"
    /\ ret.m_expr = << Constant(2), Func("LOG"), Constant(2), Variable,
                       BinOp("POW"), BinOp("MUL") >>

\* C12: differentiate fails with InvalidDifferentiation when the last token is
\* a bracket, when it is a BinaryOp whose operator is none of ADD, SUB, MUL,
\* DIV, POW, and when a single-token operand of MUL, DIV or POW is neither a
\* Constant nor a Variable.
C12_UnsupportedTokensRejected ==
    (call.op = "differentiate" /\ e.m_postfix /\ pc = "ready" /\ hist = << >>) =>
        LET m == e.m_expr
            n == Len(m)
        IN  /\ m[n].type = "OTHER_TYPE" => ret = Throw("InvalidDifferentiation")
            /\ (m[n].type = "BIN_OP" /\ m[n].op \notin {"ADD", "SUB", "MUL", "DIV", "POW"}) =>
                   ret = Throw("InvalidDifferentiation")
            /\ ( /\ n = 3
                 /\ m[3].type = "BIN_OP"
                 /\ m[3].op \in {"MUL", "DIV", "POW"}
                 /\ \/ m[1].type \notin {"VAR", "CONST"} /\ m[2].type \in {"VAR", "CONST"}
                    \/ m[2].type \notin {"VAR", "CONST", "FUNC", "BIN_OP"}
                         /\ m[1].type \in {"VAR", "CONST"} ) =>
                   ret = Throw("InvalidDifferentiation")

\* C13 as claimed: differentiating a well-formed expression whose last token is
\* a function other than SIN and COS fails with UnknownDerivative whatever the
\* argument (calls that ran into the product rule's undefined insertion aside).
C13_UnknownDerivativeAnyArgument ==
    ( /\ call.op = "differentiate"
      /\ e.m_postfix
      /\ pc = "ready"
      /\ lib = "any"
      /\ WellFormed(e.m_expr)
      /\ e.m_expr[Len(e.m_expr)].type = "FUNC"
      /\ e.m_expr[Len(e.m_expr)].op \notin {"SIN", "COS"} ) =>
        ret = Throw("UnknownDerivative")

\* C13: differentiating a well-formed expression whose last token is a
\* function f other than SIN and COS gives [Constant 0] when the argument is a
\* bare Constant (the table is not consulted); it fails with UnknownDerivative
\* when the argument is the bare Variable; for a compound argument the
\* argument is differentiated first, a failure there is the outcome, otherwise
\* the call fails with UnknownDerivative.
C13_UnknownDerivative ==
    ( /\ call.op = "differentiate"
      /\ e.m_postfix
      /\ pc = "ready"
      /\ WellFormed(e.m_expr)
      /\ e.m_expr[Len(e.m_expr)].type = "FUNC"
      /\ e.m_expr[Len(e.m_expr)].op \notin {"SIN", "COS"} ) =>
        LET m == e.m_expr
            n == Len(m)
            inner == differentiate(m, 1, n, IF lib = "any" THEN "checked" ELSE lib)
        IN  /\ (n = 2 /\ m[1].type = "CONST") => ret = OkExpr(<< Constant(0) >>)
            /\ (n = 2 /\ m[1].type = "VAR") => ret = Throw("UnknownDerivative")
            /\ n > 2 => ret = IF inner.status = "ok" THEN Throw("UnknownDerivative")
                              ELSE inner

\* C13 witness: log of a bare Constant has been differentiated.
C13_Witness ==
    /\ Called("differentiate", << Constant(2), Func("LOG") >>, TRUE)
    /\ ret = OkExpr(<< Constant(0) >>)

\* C14: when differentiation meets a binary operator whose operands the
\* backward walk cannot find within the sequence (no well-formed [g] ends at
\* the operator with tokens left before it for [f], as in [z +]), the call
\* fails with InvalidDifferentiation.
C14_MalformedSliceRejected ==
    ( /\ call.op = "differentiate"
      /\ e.m_postfix
      /\ pc = "ready"
      /\ hist = << >>
      /\ \A i \in 1..Len(e.m_expr) : e.m_expr[i].type \in {"VAR", "CONST", "FUNC", "BIN_OP"}
      /\ e.m_expr[Len(e.m_expr)].type = "BIN_OP"
      /\ e.m_expr[Len(e.m_expr)].op \in {"ADD", "SUB", "MUL", "DIV", "POW"}
      /\ ~ \E s \in 2..(Len(e.m_expr) - 1) :
               WellFormed(Slice(e.m_expr, s, Len(e.m_expr))) ) =>
        ret = Throw("InvalidDifferentiation")

\* m reads as an infix expression: operands and operators alternate, a
\* function is followed by its argument, brackets match.
RECURSIVE InfixScan(_, _, _, _)
InfixScan(m, i, operand_next, depth) ==
    IF i > Len(m) THEN ~operand_next /\ depth = 0
    ELSE IF operand_next
    THEN CASE m[i].type \in {"VAR", "CONST"} -> InfixScan(m, i + 1, FALSE, depth)
           [] m[i].type = "FUNC" -> InfixScan(m, i + 1, TRUE, depth)
           [] m[i] = LB -> InfixScan(m, i + 1, TRUE, depth + 1)
           [] OTHER -> FALSE
    ELSE CASE m[i].type = "BIN_OP" -> InfixScan(m, i + 1, TRUE, depth)
           [] m[i] = RB /\ depth > 0 -> InfixScan(m, i + 1, FALSE, depth - 1)
           [] OTHER -> FALSE

InfixWellFormed(m) == InfixScan(m, 1, TRUE, 0)

\* C15: to_postfix on an infix token sequence that is not a well-formed
\* expression raises an error and returns no token sequence.
C15_MalformedInfixRejected ==
    ( /\ call.op = "postfix"
      /\ ~e.m_postfix
      /\ pc = "ready"
      /\ ~InfixWellFormed(e.m_expr) ) =>
        /\ ret.status # "ok"
        /\ ret.m_expr = << >>

\* C17: for [f] [g] MUL with f and g compound, differentiate returns exactly
\* [f'] [g] MUL [g'] [f] MUL ADD.
C17_ProductRuleGeneral ==
    \A f \in CompoundOperands, g \in CompoundOperands :
        Called("differentiate", f \o g \o << BinOp("MUL") >>, TRUE) =>
            ret = OkExpr(ExpectedDerivative(f) \o g \o << BinOp("MUL") >>
                         \o ExpectedDerivative(g) \o f \o << BinOp("MUL") >>
                         \o << BinOp("ADD") >>)

\* C18: for [f] [g] MUL with g a bare Constant and f not, the result is exactly
\* p1 ([f'] [g] MUL, or [g] when f is the bare Variable); with g the bare
\* Variable and f compound the second term is exactly [f].
C18_ProductRuleBareOperand ==
    /\ \A f \in CompoundOperands :
           /\ Called("differentiate", f \o << Constant(2), BinOp("MUL") >>, TRUE) =>
                  ret = OkExpr(ExpectedDerivative(f) \o << Constant(2), BinOp("MUL") >>)
           /\ Called("differentiate", f \o << Variable, BinOp("MUL") >>, TRUE) =>
                  ret = OkExpr(ExpectedDerivative(f) \o << Variable, BinOp("MUL") >>
                               \o f \o << BinOp("ADD") >>)
    /\ Called("differentiate", << Variable, Constant(2), BinOp("MUL") >>, TRUE) =>
           ret = OkExpr(<< Constant(2) >>)

\* C19 as claimed: in the POW rule with a bare Constant exponent g the result
\* never holds the three tokens [g 1 SUB], for the bare Variable as base and
\* for a compound base.
C19_ExponentAlwaysFolded ==
    \A f \in { << Variable >> } \cup CompoundOperands :
        Called("differentiate", f \o << Constant(2), BinOp("POW") >>, TRUE) =>
            /\ ret.status = "ok"
            /\ Contains(ret.m_expr, << Constant(1) >>)
            /\ ~Contains(ret.m_expr, << Constant(2), Constant(1), BinOp("SUB") >>)

\* C19: in the POW rule with a bare Constant exponent g, the exponent minus
\* one is folded into the single Constant g-1 when the base is the bare
\* Variable ([g z (g-1) ^ *]); for a compound base f it is not folded: the
\* result is [f'] [g] [f] [g 1 SUB] POW MUL MUL.
C19_ExponentFoldedForVariableBase ==
    /\ \A n \in 0..MaxConst :
           Called("differentiate", << Variable, Constant(n), BinOp("POW") >>, TRUE) =>
               /\ ret.status = "ok"
               /\ Contains(ret.m_expr, << Variable, Constant(n - 1), BinOp("POW") >>)
               /\ ~Contains(ret.m_expr, << Constant(1), BinOp("SUB") >>)
    /\ \A f \in CompoundOperands :
           Called("differentiate", f \o << Constant(2), BinOp("POW") >>, TRUE) =>
               ret = OkExpr(ExpectedDerivative(f) \o << Constant(2) >> \o f
                            \o << Constant(2), Constant(1), BinOp("SUB"),
                                  BinOp("POW"), BinOp("MUL"), BinOp("MUL") >>)

\* C19 witness: (sin z) ^ 2 has been differentiated, the exponent left as 2 1 -.
C19_Witness ==
    /\ Called("differentiate",
              << Variable, Func("SIN"), Constant(2), BinOp("POW") >>, TRUE)
    /\ ret.status = "ok"
    /\ Contains(ret.m_expr, << Constant(2), Constant(1), BinOp("SUB") >>)

Parsed == pc # "input" /\ "text" \in DOMAIN src

\* The position of the first escape of text, 0 when it has none.
FirstEscape(text) ==
    IF \E n \in 1..Len(text) : text[n] = "\\"
    THEN CHOOSE n \in 1..Len(text) :
             text[n] = "\\" /\ \A k \in 1..(n - 1) : text[k] # "\\"
    ELSE 0

\* The first position after n that holds a character ending a name, or
\* Len(text) + 1 when the name runs to the end of the input.
NameStop(text, n) ==
    CHOOSE j \in (n + 1)..(Len(text) + 1) :
        /\ j <= Len(text) => text[j] \in NameEnders
        /\ \A k \in (n + 1)..(j - 1) : text[k] \notin NameEnders

EscapedName(text, n) == SubSeq(text, n + 1, NameStop(text, n) - 1)

\* Characters that each tokenize on their own, whatever follows them.
PlainChars ==
    Digits \cup {"z", "e", "i", "+", "*", "/", "^", "(", ")", "{", "}"}

\* text is plain characters up to its first escape.
EscapeReached(text) ==
    /\ FirstEscape(text) # 0
    /\ \A k \in 1..(FirstEscape(text) - 1) : text[k] \in PlainChars

\* C16 as stated: an escaped name absent from the operation table fails with
\* OperationNotFound wherever it occurs, the end of the input included.
C16_UnknownNameAnywhere ==
    ( /\ Parsed
      /\ EscapeReached(src.text)
      /\ ~HasOperation(EscapedName(src.text, FirstEscape(src.text))) ) =>
        /\ call.op = "parse"
        /\ ret = Throw("OperationNotFound")

\* C16: an escaped name absent from the operation table fails with
\* OperationNotFound when a name-ending character (an escape, an operator or
\* an opening bracket) follows it; an escaped name that runs to the end of the
\* input fails with LexError (no end of the name is found) before any lookup,
\* whether or not the name is in the table.
C16_UnknownEscapedName ==
    ( Parsed /\ EscapeReached(src.text) ) =>
        LET n == FirstEscape(src.text)
            name == EscapedName(src.text, n)
        IN  /\ (NameStop(src.text, n) <= Len(src.text) /\ ~HasOperation(name)) =>
                   /\ call.op = "parse"
                   /\ ret = Throw("OperationNotFound")
            /\ NameStop(src.text, n) > Len(src.text) =>
                   /\ call.op = "parse"
                   /\ ret = Throw("LexError")

\* C16 witness: 2\x( has been parsed, the unknown name x followed by a bracket.
C16_Witness ==
    /\ Parsed
    /\ src.text = << "2", "\\", "x", "(" >>
    /\ call.op = "parse"
    /\ ret = Throw("OperationNotFound")

\* The table fragment of the two functions that have one.
Fragment(f) ==
    IF f = "SIN" THEN << Func("COS") >> ELSE << Func("SIN"), Func("NEG") >>

\* What differentiate returns for the operand x in the build the program at
\* hand runs on (every build agrees unless undefined behaviour is executed).
OperandDerivative(x) ==
    LET checked == differentiate(x, 1, Len(x) + 1, "checked") IN
    IF checked.status # "crash" \/ lib = "any" THEN checked
    ELSE differentiate(x, 1, Len(x) + 1, lib)

BareConstant(f) == Len(f) = 1 /\ f[1].type = "CONST"

\* C22: for [f] [g] op with op ADD or SUB, differentiate returns g' (ADD) or
\* the negation of g' (SUB: the value of a lone Constant negated, otherwise g'
\* followed by NEG) when f is a bare Constant; else exactly f' when g is a bare
\* Constant; otherwise exactly [f'] [g'] op.
C22_SumRule ==
    \A f \in BareOperands \cup CompoundOperands,
       g \in BareOperands \cup CompoundOperands,
       op \in {"ADD", "SUB"} :
        Called("differentiate", f \o g \o << BinOp(op) >>, TRUE) =>
            LET f_deriv == ExpectedDerivative(f)
                g_deriv == ExpectedDerivative(g)
            IN  ret = OkExpr(
                    IF BareConstant(f)
                    THEN IF op = "ADD" THEN g_deriv
                         ELSE IF BareConstant(g_deriv)
                         THEN << ConstantV(VNeg(g_deriv[1].val)) >>
                         ELSE g_deriv \o << Func("NEG") >>
                    ELSE IF BareConstant(g) THEN f_deriv
                    ELSE f_deriv \o g_deriv \o << BinOp(op) >>)

\* The position of the topmost open bracket of the stack s, 0 when it holds
\* none.
LastOpen(s) ==
    IF \E i \in 1..Len(s) : s[i] = LB
    THEN CHOOSE i \in 1..Len(s) : s[i] = LB /\ \A j \in (i + 1)..Len(s) : s[j] # LB
    ELSE 0

\* One step of the close-bracket branch with a matching open bracket on the
\* stack: everything above the bracket is emitted in pop order, the bracket is
\* discarded, a function token now on top is emitted too, nothing else is
\* popped, and the conversion goes on with the next token.
C23_Step ==
    (InLoop /\ e.m_expr[it] = RB /\ LastOpen(stack) > 0) =>
        LET k == LastOpen(stack)
            emitted == postfix \o [ j \in 1..(Len(stack) - k) |-> stack[Len(stack) + 1 - j] ]
            rest == SubSeq(stack, 1, k - 1)
        IN  /\ pc' = "postfix"
            /\ it' = it + 1
            /\ IF rest # << >> /\ rest[Len(rest)].type = "FUNC"
               THEN /\ postfix' = Append(emitted, rest[Len(rest)])
                    /\ stack' = SubSeq(rest, 1, Len(rest) - 1)
               ELSE /\ postfix' = emitted
                    /\ stack' = rest

\* What the rule gives on f ( x ), f ( x o 2 ) and ( x ).
C23_Examples ==
    \A x \in InfixOperands :
        /\ \A f \in InfixFuncs :
             /\ Called("postfix", << f, LB, x, RB >>, FALSE) =>
                    ret = OkExpr(<< x, f >>)
             /\ \A o \in AllBinOps :
                    Called("postfix", << f, LB, x, o, Constant(2), RB >>, FALSE) =>
                        ret = OkExpr(<< x, Constant(2), o, f >>)
        /\ Called("postfix", << LB, x, RB >>, FALSE) => ret = OkExpr(<< x >>)

\* C23: after a close bracket has popped and discarded its open bracket, one
\* pending function token is popped and emitted if and only if one is now on
\* top of the stack, so f ( expr ) converts to [postfix of expr] f; when
\* nothing lies under the open bracket nothing further is popped.
C23_PendingFunctionAfterBracket == [][C23_Step /\ C23_Examples']_vars

\* C24 as claimed: every stacked unary function, NEG included, binds more
\* tightly than the binary operator that follows its operand and is emitted
\* before that operator is pushed: f x o 2 converts to [x f 2 o].
C24_UnaryBindsTightest ==
    \A f \in InfixFuncs, x \in InfixOperands, o \in AllBinOps :
        Called("postfix", << f, x, o, Constant(2) >>, FALSE) =>
            /\ get_precedence(f.op) > get_precedence(o.op)
            /\ ret = OkExpr(<< x, f, Constant(2), o >>)

\* One step of the BIN_OP branch with a function on top of the stack: the
\* function is popped and emitted first unless it is NEG under POW, which
\* stays on the stack with the operator pushed above it.
C24_Step ==
    (InLoop /\ e.m_expr[it].type = "BIN_OP" /\ stack # << >>
            /\ stack[Len(stack)].type = "FUNC") =>
        LET t == e.m_expr[it]
            f == stack[Len(stack)]
        IN  IF f.op = "NEG" /\ t.op = "POW"
            THEN stack' = Append(stack, t) /\ postfix' = postfix
            ELSE /\ Len(postfix') > Len(postfix)
                 /\ postfix'[Len(postfix) + 1] = f
                 /\ stack'[Len(stack')] = t
                 /\ Len(stack') <= Len(stack)

\* The precedence table on the operators, and what it gives on f x o 2, stated
\* where a conversion has returned.
C24_Examples ==
    (call.op = "postfix" /\ pc = "ready" /\ hist = << >>) =>
        /\ \A o \in BinaryOps :
               /\ \A f \in UnaryFuncs \ {"NEG"} : get_precedence(f) > get_precedence(o)
               /\ get_precedence(o) = (CASE o \in {"ADD", "SUB"} -> 0
                                         [] o \in {"MUL", "DIV"} -> 1
                                         [] o = "POW" -> 2)
        /\ get_precedence("NEG") = get_precedence("MUL")
        /\ \A x \in InfixOperands, o \in AllBinOps :
               /\ Called("postfix", << Func("SIN"), x, o, Constant(2) >>, FALSE) =>
                      ret = OkExpr(<< x, Func("SIN"), Constant(2), o >>)
               /\ Called("postfix", << Func("NEG"), x, o, Constant(2) >>, FALSE) =>
                      ret = OkExpr(IF o.op = "POW"
                                   THEN << x, Constant(2), o, Func("NEG") >>
                                   ELSE << x, Func("NEG"), Constant(2), o >>)

\* C24: every unary function other than NEG has a precedence (3) strictly
\* greater than that of every binary operator (ADD/SUB = 0, MUL/DIV = 1,
\* POW = 2) and, when stacked, is popped and emitted before a following
\* binary operator is pushed. NEG has precedence 1: it is popped before ADD,
\* SUB, MUL and DIV but stays stacked under POW, so NEG z ^ 2 converts to
\* [z 2 ^ neg] and NEG z * 2 to [z neg 2 *].
C24_UnaryPrecedence == [][C24_Step /\ C24_Examples']_vars

\* C24 witness: NEG z ^ 2 has been converted to [z 2 ^ neg].
C24_Witness ==
    /\ Called("postfix", << Func("NEG"), Variable, BinOp("POW"), Constant(2) >>, FALSE)
    /\ ret = OkExpr(<< Variable, Constant(2), BinOp("POW"), Func("NEG") >>)

\* The value an operand token pushes when the call argument is z.
Pushed(t, z) == IF t.type = "VAR" THEN z ELSE t.val

\* C25: evaluate applies a BinaryOp with the second value popped as the left
\* and the first value popped as the right operand: [a b SUB] is a - b,
\* [a b DIV] is a / b, [a b POW] is a ^ b (checked for operands that push the
\* integers 0, 1, 2, ...); a Variable pushes the call argument z and a
\* Constant its own value.
C25_OperandOrder ==
    (call.op = "evaluate" /\ pc = "ready" /\ hist = << >>) =>
        LET m == e.m_expr
            operand(i) == m[i].type \in {"VAR", "CONST"}
            natural(v) == IsRat(v) /\ v.d = 1 /\ v.n >= 0
        IN  /\ (Len(m) = 1 /\ m[1] = Variable) => ret = OkVal(call.z)
            /\ (Len(m) = 1 /\ m[1].type = "CONST") => ret = OkVal(m[1].val)
            /\ ( /\ Len(m) = 3
                 /\ operand(1)
                 /\ operand(2)
                 /\ m[3].type = "BIN_OP"
                 /\ m[3].op \in {"SUB", "DIV", "POW"}
                 /\ natural(Pushed(m[1], call.z))
                 /\ natural(Pushed(m[2], call.z)) ) =>
                   LET a == Pushed(m[1], call.z).n
                       b == Pushed(m[2], call.z).n
                   IN  ret = OkVal(CASE m[3].op = "SUB" -> Num(a - b)
                                     [] m[3].op = "DIV" ->
                                          IF b = 0 THEN OtherVal ELSE Rat(a, b)
                                     [] m[3].op = "POW" ->
                                          IF a = 0 /\ b = 0 THEN OtherVal
                                          ELSE Num(Expt(a, b)))

\* C25 witness: [1 3 SUB] has been evaluated to -2.
C25_Witness ==
    /\ Called("evaluate", << Constant(1), Constant(3), BinOp("SUB") >>, TRUE)
    /\ ret = OkVal(Num(-2))

\* Every operator token of m names an operator the evaluator has a function for.
KnownOperators(m) ==
    \A i \in 1..Len(m) :
        /\ m[i].type = "BIN_OP" => m[i].op \in BinaryOps
        /\ m[i].type = "FUNC" => m[i].op \in UnaryFuncs

\* C26: for every sequence that satisfies the postfix invariant, evaluate never
\* reads or pops an empty stack (the call returns a value and no undefined read
\* has happened), and exactly one value is on the stack at the end: not none,
\* since the value returned is read from it, and not two, since one more
\* binary operator would find its second operand missing.
C26_EvaluateStackDiscipline ==
    ( /\ call.op = "evaluate"
      /\ pc = "ready"
      /\ WellFormed(e.m_expr)
      /\ KnownOperators(e.m_expr) ) =>
        /\ ret.status = "ok"
        /\ hist = << >> => lib = "any"
        /\ evaluate(e.m_expr \o << BinOp("ADD") >>, call.z, "checked", OtherVal) = Crash

\* C26 witness: [z 2 + z sin *] has been evaluated at 0 and returned 0.
C26_Witness ==
    /\ Called("evaluate", << Variable, Constant(2), BinOp("ADD"), Variable, Func("SIN"),
                             BinOp("MUL") >>, TRUE)
    /\ call.z = Num(0)
    /\ ret = OkVal(Num(0))

\* The operator that carries the name of each function name.
SameNamedOperator ==
    { << << "r", "e" >>, "RE" >>,
      << << "i", "m" >>, "IM" >>,
      << << "a", "b", "s" >>, "ABS" >>,
      << << "a", "r", "g" >>, "ARG" >>,
      << << "c", "o", "n", "j" >>, "CONJ" >>,
      << << "e", "x", "p" >>, "EXP" >>,
      << << "l", "o", "g" >>, "LOG" >>,
      << << "c", "o", "s" >>, "COS" >>,
      << << "s", "i", "n" >>, "SIN" >>,
      << << "t", "a", "n" >>, "TAN" >>,
      << << "s", "e", "c" >>, "SEC" >>,
      << << "c", "s", "c" >>, "CSC" >>,
      << << "c", "o", "t" >>, "COT" >>,
      << << "a", "c", "o", "s" >>, "ACOS" >>,
      << << "a", "s", "i", "n" >>, "ASIN" >>,
      << << "a", "t", "a", "n" >>, "ATAN" >>,
      << << "c", "o", "s", "h" >>, "COSH" >>,
      << << "s", "i", "n", "h" >>, "SINH" >>,
      << << "t", "a", "n", "h" >>, "TANH" >>,
      << << "a", "c", "o", "s", "h" >>, "ACOSH" >>,
      << << "a", "s", "i", "n", "h" >>, "ASINH" >>,
      << << "a", "t", "a", "n", "h" >>, "ATANH" >>,
      << << "d", "e", "r", "i", "v" >>, "DERIV" >> }

\* The text \name(z).
CallOf(name) == << "\\" >> \o name \o << "(", "z", ")" >>

\* C27: the name table gives each function name its own operator: \name(z)
\* is read as the function whose operator carries that name (sec as SEC, csc
\* as CSC, ..., atanh as ATANH), and no two function names share an operator.
C27_EachNameItsOwnOperator ==
    \A entry \in SameNamedOperator :
        ( /\ Parsed
          /\ hist = << >>
          /\ src.text = CallOf(entry[1]) ) =>
            /\ Len(e.m_expr) = 4
            /\ e.m_expr[1] = Func(entry[2])
            /\ \A other \in SameNamedOperator :
                   other[1] # entry[1] =>
                       get_operation(other[1]) # get_operation(entry[1])

\* Every token of m is a Variable, a Constant, one of the five binary
\* operators, SIN or COS.
RuleAlphabet(m) ==
    \A i \in 1..Len(m) :
        \/ m[i].type \in {"VAR", "CONST"}
        \/ m[i].type = "BIN_OP" /\ m[i].op \in BinaryOps
        \/ m[i].type = "FUNC" /\ m[i].op \in {"SIN", "COS"}

\* C28: for every well-formed postfix expression built from Variable, Constant,
\* ADD, SUB, MUL, DIV, POW, SIN and COS, differentiate returns an expression:
\* a non-empty well-formed postfix sequence without bracket tokens.
C28_DerivativeWellFormed ==
    ( /\ call.op = "differentiate"
      /\ pc = "ready"
      /\ hist = << >>
      /\ WellFormed(e.m_expr)
      /\ RuleAlphabet(e.m_expr) ) =>
        /\ ret.status = "ok"
        /\ ret.m_postfix
        /\ WellFormed(ret.m_expr)

\* C29: differentiate is closed under its own output: an expression that
\* differentiate returned for a well-formed expression over Variable, Constant,
\* the five binary operators, SIN and COS (it may hold the NEG and LOG the
\* rules emit) is differentiated in turn into a well-formed expression.
C29_ClosedUnderOwnOutput ==
    ( /\ call.op = "differentiate"
      /\ pc = "ready"
      /\ hist = << "differentiate" >>
      /\ "text" \notin DOMAIN src
      /\ WellFormed(src.m_expr)
      /\ RuleAlphabet(src.m_expr)
      /\ WellFormed(e.m_expr) ) =>
        /\ ret.status = "ok"
        /\ ret.m_postfix
        /\ WellFormed(ret.m_expr)

\* What f x o 2 converts to: the function is emitted before the operator
\* unless it is NEG under POW.
UnbracketedPostfix(f, x, o) ==
    IF f.op = "NEG" /\ o.op = "POW"
    THEN << x, Constant(2), o, f >>
    ELSE << x, f, Constant(2), o >>

\* C30: brackets around a single operand do not change what the conversion
\* returns: f ( x ) o 2 converts as f x o 2 does (so NEG ( z ) ^ 2 and
\* NEG z ^ 2 give the same postfix), f ( x ) as f x, ( x ) o 2 as x o 2,
\* 2 o ( x ) as 2 o x, and ( x ) as x.
C30_BracketedOperandTransparent ==
    \A x \in InfixOperands :
        /\ \A f \in InfixFuncs :
             /\ Called("postfix", << f, LB, x, RB >>, FALSE) => ret = OkExpr(<< x, f >>)
             /\ \A o \in AllBinOps :
                  /\ Called("postfix", << f, x, o, Constant(2) >>, FALSE) =>
                         ret = OkExpr(UnbracketedPostfix(f, x, o))
                  /\ Called("postfix", << f, LB, x, RB, o, Constant(2) >>, FALSE) =>
                         ret = OkExpr(UnbracketedPostfix(f, x, o))
        /\ \A o \in AllBinOps :
             /\ Called("postfix", << Constant(2), o, LB, x, RB >>, FALSE) =>
                    ret = OkExpr(<< Constant(2), x, o >>)
             /\ Called("postfix", << LB, x, RB, o, Constant(2) >>, FALSE) =>
                    ret = OkExpr(<< x, Constant(2), o >>)
        /\ Called("postfix", << LB, x, RB >>, FALSE) => ret = OkExpr(<< x >>)

====
